---- MODULE Spec2Model ----
(***************************************************************************)
(* A model of consul-catalog-sync: the loaders, the rule engine and the    *)
(* template processor, the mode dispatch of main, and the batch executor   *)
(* (consul.go).                                                            *)
(*                                                                         *)
(* Go values (interface{}) are tagged records:                             *)
(*   [k |-> "str", s |-> ...]   string                                     *)
(*   [k |-> "num", n |-> ...]   int                                        *)
(*   [k |-> "bool", b |-> ...]  bool                                       *)
(*   [k |-> "nil"]              nil                                        *)
(*   [k |-> "map", m |-> f]     map[string]interface{}, f a function       *)
(*   [k |-> "seq", q |-> <<>>]  []interface{}                              *)
(*   [k |-> "imap"]             map[interface{}]interface{} (a YAML map    *)
(*                              with a non-string key): json.Marshal       *)
(*                              rejects it                                 *)
(* Texts are TLA+ strings, built with \o and ToString as fmt builds them.  *)
(***************************************************************************)
EXTENDS Integers, Sequences, FiniteSets, TLC

VARIABLES
    pc,            \* position of the single thread of control
    consulAddr,    \* [valid |-> BOOLEAN]: whether http.NewRequest accepts the URL
    operations,    \* ExecuteOperations' argument
    i,             \* ExecuteOperations' loop index
    submitted,     \* requests handed to client.Do so far: <<[num, ops]>>
    inFlight,      \* batch numbers whose request awaits its response
    outcomes,      \* what client.Do / the body read produced, one per request
    execResult,    \* [done |-> BOOLEAN, err |-> text]; err = "" is nil
    genCtx,        \* GenerateOperations' context argument
    genRules,      \* GenerateOperations' rule list
    genOut,        \* what GenerateOperations returned and logged
    call,          \* a function called on its own: [fn, ...arguments]
    ret,           \* what it returned
    config,        \* Config: [Payload, DryRun]
    varsPath,      \* what is at config.VarsPath: [exists, isDir, files]
    mappingFile,   \* what is at config.MappingFile: [status, rules]
    walkIdx,       \* filepath.Walk's position among the directory's entries
    allVars,       \* the record set loaded so far: record key |-> value
    mappingConfig, \* the rules loaded
    pending,       \* record keys generateAllOperations has yet to visit
    allOperations, \* generateAllOperations' accumulated list
    logs,          \* the warnings and the load counts logged
    output,        \* what was written to stdout: [kind, ...]
    exit           \* "running", "ok" (exit 0) or "fatal" (log.Fatalf), and why

genVars == <<genCtx, genRules, genOut>>

callVars == <<call, ret>>

execVars == <<consulAddr, operations, i, submitted, inFlight, outcomes, execResult>>

inputVars == <<config, varsPath, mappingFile>>

mainVars == <<walkIdx, allVars, mappingConfig, pending, allOperations, logs, output, exit>>

vars == <<pc, consulAddr, operations, i, submitted, inFlight, outcomes, execResult,
          genCtx, genRules, genOut, call, ret, config, varsPath, mappingFile, walkIdx, allVars,
          mappingConfig, pending, allOperations, logs, output, exit>>

----------------------------------------------------------------------------
(* Bounds of the model *)

\* longest operation list handed to ExecuteOperations (two full batches and one more)
MaxOps == 129

\* longest rule list handed to GenerateOperations
MaxRules == 2

\* most entries below the vars directory
MaxFiles == 2

\* longest sequence node of a template handed to processTemplate on its own
MaxSeqLen == 2

----------------------------------------------------------------------------
(* Values *)

VStr(s) == [k |-> "str", s |-> s]
VNum(n) == [k |-> "num", n |-> n]
VBool(b) == [k |-> "bool", b |-> b]
VNil == [k |-> "nil"]
VMap(m) == [k |-> "map", m |-> m]
VSeq(q) == [k |-> "seq", q |-> q]
VIMap == [k |-> "imap"]

EmptyMap == <<>>

\* the smaller of two integers
min(a, b) == IF a < b THEN a ELSE b

\* json.Marshal succeeds on a value: every kind but map[interface{}]interface{}
RECURSIVE Marshalable(_)
Marshalable(v) ==
    CASE v.k = "imap" -> FALSE
      [] v.k = "map" -> \A key \in DOMAIN v.m : Marshalable(v.m[key])
      [] v.k = "seq" -> \A j \in 1..Len(v.q) : Marshalable(v.q[j])
      [] OTHER -> TRUE


----------------------------------------------------------------------------
(* Texts of values: fmt's %v, as text/template prints, and encoding/json *)

\* every map key of the model, in Go's string order (fmt and encoding/json
\* both write a map's keys sorted)
KeyOrder ==
    << "Address", "Check", "ID", "Meta", "Name", "Node", "Port", "Service",
       "Tags", "bad", "field1", "field2", "field3", "list", "name", "nested",
       "nothing", "port", "services" >>

RECURSIVE GoFormat(_), GoFormatMap(_, _, _), GoFormatSeq(_, _)

\* fmt.Sprint of a value inside a composite
GoFormat(v) ==
    CASE v.k = "str" -> v.s
      [] v.k = "num" -> ToString(v.n)
      [] v.k = "bool" -> (IF v.b THEN "true" ELSE "false")
      [] v.k = "nil" -> "<nil>"
      [] v.k = "map" -> "map[" \o GoFormatMap(v.m, 1, TRUE) \o "]"
      [] v.k = "seq" -> "[" \o GoFormatSeq(v.q, 1) \o "]"
      [] v.k = "imap" -> "map[1:x]"

\* the entries of m from position j of KeyOrder on, "k:v" separated by blanks
GoFormatMap(m, j, first) ==
    IF j > Len(KeyOrder) THEN ""
    ELSE IF KeyOrder[j] \in DOMAIN m
    THEN (IF first THEN "" ELSE " ") \o KeyOrder[j] \o ":" \o GoFormat(m[KeyOrder[j]])
            \o GoFormatMap(m, j + 1, FALSE)
    ELSE GoFormatMap(m, j + 1, first)

GoFormatSeq(q, j) ==
    IF j > Len(q) THEN ""
    ELSE (IF j > 1 THEN " " ELSE "") \o GoFormat(q[j]) \o GoFormatSeq(q, j + 1)

RECURSIVE ToJSONText(_), ToJSONMap(_, _, _), ToJSONSeq(_, _)

\* json.Marshal of a value json.Marshal accepts
ToJSONText(v) ==
    CASE v.k = "str" -> "\"" \o v.s \o "\""
      [] v.k = "num" -> ToString(v.n)
      [] v.k = "bool" -> (IF v.b THEN "true" ELSE "false")
      [] v.k = "nil" -> "null"
      [] v.k = "map" -> "{" \o ToJSONMap(v.m, 1, TRUE) \o "}"
      [] v.k = "seq" -> "[" \o ToJSONSeq(v.q, 1) \o "]"
      [] v.k = "imap" -> ""

ToJSONMap(m, j, first) ==
    IF j > Len(KeyOrder) THEN ""
    ELSE IF KeyOrder[j] \in DOMAIN m
    THEN (IF first THEN "" ELSE ",") \o "\"" \o KeyOrder[j] \o "\":"
            \o ToJSONText(m[KeyOrder[j]]) \o ToJSONMap(m, j + 1, FALSE)
    ELSE ToJSONMap(m, j + 1, first)

ToJSONSeq(q, j) ==
    IF j > Len(q) THEN ""
    ELSE (IF j > 1 THEN "," ELSE "") \o ToJSONText(q[j]) \o ToJSONSeq(q, j + 1)

----------------------------------------------------------------------------
(* Patterns: a template string as text/template parses it.                 *)
(*   [ok |-> FALSE]  text that template.Parse rejects, such as "{{ .Key"     *)
(*   [ok |-> TRUE, toks |-> <<...>>]  literal text and actions:            *)
(*     [t |-> "lit", s]             text outside {{ }}                     *)
(*     [t |-> "ref", path]          {{ .A.b }}                             *)
(*     [t |-> "default", d, path]   {{ default d .A.b }}                   *)
(*     [t |-> "toJSON", path]       {{ toJSON .A.b }}                      *)
(* The empty string is the pattern with no tokens.                         *)

Pat(toks) == [ok |-> TRUE, toks |-> toks]
BadPat == [ok |-> FALSE, toks |-> <<>>]
NoPat == Pat(<<>>)
Lit(s) == [t |-> "lit", s |-> s]
Ref(path) == [t |-> "ref", path |-> path]
Default(d, path) == [t |-> "default", d |-> d, path |-> path]
ToJSON(path) == [t |-> "toJSON", path |-> path]

\* templateStr != ""
NonEmptyPattern(p) == ~p.ok \/ p.toks # <<>>

\* ExecutionContext
Context(key, value, datacenter, item) ==
    [Key |-> key, Value |-> value, Datacenter |-> datacenter, Item |-> item]

\* the result of evaluating a field chain: an error, no value at all (a
\* missing map key), or a value
Invalid == [err |-> FALSE, valid |-> FALSE, v |-> VNil]
Valid(v) == [err |-> FALSE, valid |-> TRUE, v |-> v]
EvalError == [err |-> TRUE, valid |-> FALSE, v |-> VNil]

\* text/template's evalField on a receiver that is not the context struct
evalField(recv, name) ==
    IF recv.err THEN EvalError
    ELSE IF ~recv.valid THEN Invalid
    ELSE CASE recv.v.k = "nil" -> EvalError      \* nil pointer evaluating interface {}
           [] recv.v.k = "map" ->
                 IF name \in DOMAIN recv.v.m THEN Valid(recv.v.m[name]) ELSE Invalid
           [] recv.v.k = "imap" -> Invalid
           [] OTHER -> EvalError                  \* can't evaluate field

RECURSIVE evalFieldChain(_, _)
evalFieldChain(recv, names) ==
    IF names = <<>> THEN recv
    ELSE evalFieldChain(evalField(recv, Head(names)), Tail(names))

\* a field chain from the context: .Key, .Datacenter, .Value..., .Item...
evalPath(ctx, path) ==
    IF path = <<>> THEN EvalError
    ELSE LET root ==
                CASE Head(path) = "Key" -> Valid(VStr(ctx.Key))
                  [] Head(path) = "Datacenter" -> Valid(VStr(ctx.Datacenter))
                  [] Head(path) = "Value" -> Valid(VMap(ctx.Value))
                  [] Head(path) = "Item" -> Valid(ctx.Item)
                  [] OTHER -> EvalError
         IN evalFieldChain(root, Tail(path))

\* the value a function argument or the printer receives: nil for no value
argValue(r) == IF r.valid THEN r.v ELSE VNil

\* text/template's printValue
printValue(v) == IF v.k = "nil" THEN "<no value>" ELSE GoFormat(v)

\* the "default" helper
defaultFunc(defaultVal, value) ==
    IF value.k = "nil" \/ value = VStr("") THEN defaultVal ELSE value

TokenOk(text) == [err |-> FALSE, text |-> text]
TokenError == [err |-> TRUE, text |-> ""]

\* what an action prints, given the value r of its field chain
TokenOutput(tok, r) ==
    IF r.err THEN TokenError
    ELSE IF tok.t = "toJSON"
    THEN (IF Marshalable(argValue(r)) THEN TokenOk(ToJSONText(argValue(r)))
          ELSE TokenError)
    ELSE TokenOk(printValue(IF tok.t = "default"
                            THEN defaultFunc(tok.d, argValue(r))
                            ELSE argValue(r)))

\* one token's output: [err, text]
evalToken(tok, ctx) ==
    IF tok.t = "lit" THEN TokenOk(tok.s)
    ELSE TokenOutput(tok, evalPath(ctx, tok.path))

\* the output of a token followed by the output of the rest
JoinOutputs(h, r) ==
    IF h.err THEN TokenError
    ELSE IF r.err THEN TokenError
    ELSE TokenOk(h.text \o r.text)

\* tmpl.Execute: the tokens' outputs in order; an error ends it
RECURSIVE executeTokens(_, _)
executeTokens(toks, ctx) ==
    IF toks = <<>> THEN TokenOk("")
    ELSE JoinOutputs(evalToken(Head(toks), ctx), executeTokens(Tail(toks), ctx))

\* evaluateTemplate after tmpl.Execute: "<no value>" and "" both give ""
HandleEmpty(r) ==
    IF r.err THEN TokenError
    ELSE IF r.text = "<no value>" \/ r.text = "" THEN TokenOk("")
    ELSE r

evaluateTemplate(templateStr, ctx) ==
    IF ~templateStr.ok THEN TokenError
    ELSE HandleEmpty(executeTokens(templateStr.toks, ctx))

----------------------------------------------------------------------------
(* Template processor *)

\* the integers whose decimal text occurs in the model
Numbers == {-1, 0, 1, 5, 7, 80, 8080, 9090}

\* json.Unmarshal([]byte(text), &num) for a float64 num: the text is a JSON
\* number (num/den is its value) or null, which leaves num at 0
ParseJSONNumber(text) ==
    IF \E n \in Numbers : ToString(n) = text
    THEN [ok |-> TRUE, num |-> CHOOSE n \in Numbers : ToString(n) = text, den |-> 1]
    ELSE CASE text = "null" -> [ok |-> TRUE, num |-> 0, den |-> 1]
           [] text = "1.5" -> [ok |-> TRUE, num |-> 15, den |-> 10]
           [] text = "1e3" -> [ok |-> TRUE, num |-> 1000, den |-> 1]
           [] OTHER -> [ok |-> FALSE, num |-> 0, den |-> 1]

\* int(num): the fraction is cut off, toward zero
IntOf(num, den) == IF num >= 0 THEN num \div den ELSE -((-num) \div den)

\* a faulty skip test, for C13: only nil is skipped
KeptUnlessNil(v) == v.k # "nil"

\* a faulty skip test, for C25: an empty mapping or sequence is skipped too
KeptUnlessHollow(v) ==
    /\ v.k # "nil" /\ v # VStr("") /\ v # VStr("<no value>")
    /\ v # VMap(EmptyMap) /\ v # VSeq(<<>>)

\* processed != nil && processed != "" && processed != "<no value>"
Kept(v) == v.k # "nil" /\ v # VStr("") /\ v # VStr("<no value>")

\* the elements of q that are kept, in order
RECURSIVE KeptElements(_)
KeptElements(q) ==
    IF q = <<>> THEN <<>>
    ELSE IF Kept(Head(q)) THEN <<Head(q)>> \o KeptElements(Tail(q))
    ELSE KeptElements(Tail(q))

\* a template tree is a value whose strings are patterns: [k |-> "pat", p |-> pattern]
TPat(p) == [k |-> "pat", p |-> p]

ProcOk(v) == [err |-> FALSE, v |-> v]
ProcError == [err |-> TRUE, v |-> VNil]

\* the number the text denotes, as int(num), or the text itself
CoerceNumber(num, text) ==
    IF num.ok THEN VNum(IntOf(num.num, num.den)) ELSE VStr(text)

\* processTemplate on a string, given what evaluateTemplate returned
ProcessLeaf(result) ==
    IF result.err THEN ProcError
    ELSE ProcOk(CoerceNumber(ParseJSONNumber(result.text), result.text))

\* processTemplate on a map, given its processed values
ProcessMap(processed) ==
    IF \E key \in DOMAIN processed : processed[key].err
    THEN ProcError
    ELSE ProcOk(VMap([key \in {x \in DOMAIN processed : Kept(processed[x].v)} |->
                         processed[key].v]))

\* processTemplate on a sequence, given its processed elements
ProcessSeq(processed) ==
    IF \E j \in 1..Len(processed) : processed[j].err
    THEN ProcError
    ELSE ProcOk(VSeq(KeptElements([j \in 1..Len(processed) |-> processed[j].v])))

RECURSIVE processTemplate(_, _)
processTemplate(templateData, ctx) ==
    CASE templateData.k = "pat" ->
            ProcessLeaf(evaluateTemplate(templateData.p, ctx))
      [] templateData.k = "map" ->
            ProcessMap([key \in DOMAIN templateData.m |->
                           processTemplate(templateData.m[key], ctx)])
      [] templateData.k = "seq" ->
            ProcessSeq([j \in 1..Len(templateData.q) |->
                           processTemplate(templateData.q[j], ctx)])
      [] OTHER -> ProcOk(templateData)

----------------------------------------------------------------------------
(* Envelopes *)

WrapOk(op) == [err |-> FALSE, op |-> op]
WrapError == [err |-> TRUE, op |-> VNil]

wrapNodeOperation(verb, data) ==
    VMap([Node |-> VMap([Verb |-> VStr(verb), Node |-> VMap(data)])])

\* nodeName, _ := data["Node"].(string): "" when absent or no string
NodeName(data) ==
    IF "Node" \in DOMAIN data /\ data["Node"].k = "str" THEN data["Node"].s ELSE ""

\* m, _ := data[field].(map[string]interface{}) is not nil
HasMapField(data, field) == field \in DOMAIN data /\ data[field].k = "map"

\* a faulty wrapServiceOperation, for C16: the node name is not required
wrapServiceOperationAnyNode(verb, data) ==
    IF ~HasMapField(data, "Service")
    THEN WrapError
    ELSE WrapOk(VMap([Service |-> VMap([Verb |-> VStr(verb),
                                        Node |-> VStr(NodeName(data)),
                                        Service |-> data["Service"]])]))

wrapServiceOperation(verb, data) ==
    IF NodeName(data) = "" \/ ~HasMapField(data, "Service")
    THEN WrapError
    ELSE WrapOk(VMap([Service |-> VMap([Verb |-> VStr(verb),
                                        Node |-> VStr(NodeName(data)),
                                        Service |-> data["Service"]])]))

wrapCheckOperation(verb, data) ==
    IF NodeName(data) = "" \/ ~HasMapField(data, "Check")
    THEN WrapError
    ELSE WrapOk(VMap([Check |-> VMap([Verb |-> VStr(verb),
                                      Node |-> VStr(NodeName(data)),
                                      Check |-> data["Check"]])]))

wrapOperation(opType, verb, data) ==
    CASE opType = "Node" -> WrapOk(wrapNodeOperation(verb, data))
      [] opType = "Service" -> wrapServiceOperation(verb, data)
      [] opType = "Check" -> wrapCheckOperation(verb, data)
      [] OTHER -> WrapError

\* OperationRule
Rule(type, verb, condition, foreach, template) ==
    [Type |-> type, Verb |-> verb, Condition |-> condition, Foreach |-> foreach,
     Template |-> template]

\* a faulty generateSingleOperation, for C17: no default verb
WrapProcessedRuleVerb(rule, processed) ==
    IF processed.err THEN WrapError
    ELSE IF processed.v.k # "map" THEN WrapError
    ELSE wrapOperation(rule.Type, rule.Verb, processed.v.m)

\* generateSingleOperation, given the processed template
WrapProcessed(rule, processed) ==
    IF processed.err THEN WrapError
    ELSE IF processed.v.k # "map" THEN WrapError
    ELSE wrapOperation(rule.Type, IF rule.Verb = "" THEN "set" ELSE rule.Verb,
                       processed.v.m)

generateSingleOperation(rule, ctx) ==
    WrapProcessed(rule, processTemplate(VMap(rule.Template), ctx))

----------------------------------------------------------------------------
(* Records and rules the model runs on *)

Svc(name, port) == VMap([name |-> VStr(name), port |-> VNum(port)])

\* record key |-> record fields; one key is the decimal text of a number
Records ==
    [key \in {"web-01", "db-02", ToString(7), "edge"} |->
        CASE key = "web-01" ->
                [field1 |-> VStr("svc-a"), field2 |-> VStr("10.0.1.5"),
                 field3 |-> VStr("web"),
                 services |-> VSeq(<<Svc("api", 8080), Svc("db", 9090)>>)]
          [] key = "db-02" -> [field2 |-> VStr("10.0.1.6")]
          [] key = ToString(7) -> [field1 |-> VStr("svc-b"), services |-> VSeq(<<>>)]
          [] OTHER ->
                [field1 |-> VStr("false"), field3 |-> VStr(""),
                 services |-> VSeq(<<VMap([name |-> VStr("x")]), VStr("plain"),
                                     VMap([port |-> VNum(80)])>>),
                 nested |-> VMap([list |-> VSeq(<<VNum(5)>>)]),
                 bad |-> VIMap,
                 nothing |-> VNil]]

RECURSIVE SeqsIn(_)
\* the sequences inside a value, itself included
SeqsIn(v) ==
    CASE v.k = "seq" -> {v} \cup UNION { SeqsIn(v.q[j]) : j \in 1..Len(v.q) }
      [] v.k = "map" -> UNION { SeqsIn(v.m[key]) : key \in DOMAIN v.m }
      [] OTHER -> {}

\* the arrays whose JSON text the model can meet
JsonArrays == UNION { SeqsIn(VMap(Records[key])) : key \in DOMAIN Records }

KeyPat == Pat(<<Ref(<<"Key">>)>>)
FieldPat(name) == Pat(<<Ref(<<"Value", name>>)>>)
ItemPat(name) == Pat(<<Ref(<<"Item", name>>)>>)

ServiceTemplate ==
    [Node |-> TPat(KeyPat),
     Service |-> VMap([ID |-> TPat(ItemPat("name")), Port |-> TPat(ItemPat("port"))])]

\* the rules of the model, by name
Rules ==
    [ Node |->
        Rule("Node", "", NoPat, NoPat,
             [Node |-> TPat(KeyPat), Address |-> TPat(FieldPat("field2")),
              Meta |-> VMap([Name |-> TPat(FieldPat("field3"))])]),
      ServiceIf |->
        Rule("Service", "set", FieldPat("field1"), NoPat,
             [Node |-> TPat(KeyPat),
              Service |-> VMap([ID |-> TPat(FieldPat("field1")),
                                Tags |-> VSeq(<<TPat(FieldPat("field3"))>>)])]),
      ServiceEach |->
        Rule("Service", "set", NoPat, FieldPat("services"), ServiceTemplate),
      ServiceEachIf |->
        Rule("Service", "delete", FieldPat("field1"), FieldPat("services"), ServiceTemplate),
      ServiceEachJSON |->
        Rule("Service", "set", NoPat, Pat(<<ToJSON(<<"Value", "services">>)>>), ServiceTemplate),
      NodeEachNested |->
        Rule("Node", "set", NoPat, Pat(<<Ref(<<"Value", "nested", "list">>)>>),
             [Node |-> TPat(KeyPat), Port |-> TPat(Pat(<<Ref(<<"Item">>)>>))]),
      CheckItem |->
        Rule("Check", "set", NoPat, NoPat,
             [Node |-> TPat(KeyPat), Check |-> VMap([Name |-> TPat(ItemPat("name"))])]),
      CheckDefault |->
        Rule("Check", "", Pat(<<Default(VStr("false"), <<"Value", "field3">>)>>), NoPat,
             [Node |-> TPat(Pat(<<Lit("node-"), Ref(<<"Key">>)>>)),
              Check |-> VMap([Name |-> TPat(FieldPat("field3")), Port |-> VNum(80)])]),
      NodeIfField3 |->
        Rule("Node", "set", FieldPat("field3"), NoPat, [Node |-> TPat(KeyPat)]),
      BadCondition |->
        Rule("Node", "set", BadPat, NoPat, [Node |-> TPat(KeyPat)]),
      BadForeach |->
        Rule("Node", "set", NoPat, BadPat, [Node |-> TPat(KeyPat)]),
      BadTemplate |->
        Rule("Node", "set", NoPat, NoPat, [Node |-> TPat(KeyPat), Address |-> TPat(BadPat)]),
      UnknownType |->
        Rule("Gateway", "set", NoPat, NoPat, [Node |-> TPat(KeyPat)]),
      ServiceEachIfItem |->
        Rule("Service", "set", ItemPat("name"), FieldPat("services"), ServiceTemplate),
      BadForeachIf |->
        Rule("Node", "set", FieldPat("field3"), BadPat, [Node |-> TPat(KeyPat)]),
      ServiceSparse |->
        Rule("Service", "set", NoPat, NoPat,
             [Node |-> TPat(KeyPat), Service |-> VMap([ID |-> TPat(FieldPat("field3"))])]),
      CheckSparse |->
        Rule("Check", "set", NoPat, NoPat,
             [Node |-> TPat(Pat(<<Lit("node-"), Ref(<<"Key">>)>>)),
              Check |-> VMap([Name |-> TPat(FieldPat("field3")),
                              Meta |-> VMap([Owner |-> TPat(FieldPat("field1"))]),
                              Tags |-> VSeq(<<TPat(FieldPat("field3")),
                                              VMap([Port |-> TPat(FieldPat("missing"))])>>)])]) ]

RulePool == { Rules[n] : n \in DOMAIN Rules }

----------------------------------------------------------------------------
(* Operation rule engine *)

\* the source text of a field chain: .Value.a.b
RECURSIVE PathText(_)
PathText(path) ==
    IF path = <<>> THEN "" ELSE "." \o Head(path) \o PathText(Tail(path))

\* a token's source text between its delimiters, and whole
TokenInner(tok) ==
    CASE tok.t = "lit" -> tok.s
      [] tok.t = "ref" -> PathText(tok.path)
      [] tok.t = "default" -> "default " \o ToJSONText(tok.d) \o " " \o PathText(tok.path)
      [] tok.t = "toJSON" -> "toJSON " \o PathText(tok.path)

TokenSource(tok) ==
    IF tok.t = "lit" THEN tok.s ELSE "{{ " \o TokenInner(tok) \o " }}"

\* the source of all tokens but the last, then the last one without its
\* closing delimiter
RECURSIVE SourceUnclosed(_)
SourceUnclosed(toks) ==
    IF toks = <<>> THEN ""
    ELSE IF Len(toks) = 1
    THEN (IF Head(toks).t = "lit" THEN Head(toks).s ELSE "{{ " \o TokenInner(Head(toks)))
    ELSE TokenSource(Head(toks)) \o SourceUnclosed(Tail(toks))

\* parseFieldPath: the expression without its outer {{ }} and blanks, when
\* that begins with ".Value.", without this prefix; else "". (A literal text
\* is taken not to begin with ".Value." or "{{".)
parseFieldPath(expr) ==
    IF ~expr.ok \/ expr.toks = <<>> THEN ""
    ELSE LET first == Head(expr.toks) IN
         IF first.t = "ref" /\ Len(first.path) >= 2 /\ Head(first.path) = "Value"
         THEN LET rest == Tail(first.path)
                  field == Head(rest) \o PathText(Tail(rest))
              IN IF Len(expr.toks) = 1 THEN field
                 ELSE field \o " }}" \o SourceUnclosed(Tail(expr.toks))
         ELSE ""

\* getNestedField: nil when the key is absent
getNestedField(data, path) ==
    IF path \in DOMAIN data THEN data[path] ELSE VNil

\* the elements of the one array in matches, or none
ItemsOf(matches) ==
    IF matches = {} THEN <<>> ELSE (CHOOSE a \in matches : TRUE).q

\* json.Unmarshal([]byte(text), &items) for items []interface{}: the items
\* of the array whose JSON text this is; none when the text is no array
ParseJSONArray(text) == ItemsOf({a \in JsonArrays : ToJSONText(a) = text})

NoItems == [err |-> FALSE, items |-> <<>>]

\* evaluateForeach after tmpl.Execute, given the value arr of the field path
ForeachLookup(arr, text) ==
    IF arr.k = "seq" THEN [err |-> FALSE, items |-> arr.q]
    ELSE [err |-> FALSE, items |-> ParseJSONArray(text)]

\* getNestedField(ctx.Value, fieldPath) when fieldPath != ""
FieldOf(data, fieldPath) ==
    IF fieldPath # "" THEN getNestedField(data, fieldPath) ELSE VNil

\* evaluateForeach, given what tmpl.Execute wrote
ForeachResolve(expr, ctx, r) ==
    IF r.err THEN NoItems
    ELSE IF r.text = "" \/ r.text = "<no value>" THEN NoItems
    ELSE ForeachLookup(FieldOf(ctx.Value, parseFieldPath(expr)), r.text)

\* [err, items]
evaluateForeach(expr, ctx) ==
    IF ~expr.ok THEN [err |-> TRUE, items |-> <<>>]
    ELSE ForeachResolve(expr, ctx, executeTokens(expr.toks, ctx))

Warn(what, key) == [what |-> what, key |-> key]

NoOps == [ops |-> <<>>, warns |-> <<>>]

\* the outcome of one unit (a rule, or one item of its foreach): its
\* operation, or the warning logged
UnitResult(op, what, key) ==
    IF op.err THEN [ops |-> <<>>, warns |-> <<Warn(what, key)>>]
    ELSE [ops |-> <<op.op>>, warns |-> <<>>]

\* a faulty append, for C15: what follows a failure is given up
CombineUntilFailure(h, r) ==
    IF h.warns # <<>> THEN h
    ELSE [ops |-> h.ops \o r.ops, warns |-> h.warns \o r.warns]

\* a faulty append, for C12: the later operations are put first
CombineReversed(h, r) == [ops |-> r.ops \o h.ops, warns |-> h.warns \o r.warns]

\* operations and warnings of a step, then those of the steps after it
Combine(h, r) == [ops |-> h.ops \o r.ops, warns |-> h.warns \o r.warns]

\* a faulty loop of processForeach, for C21: the context keeps the item of the
\* first iteration
RECURSIVE ForeachItemsStale(_, _, _, _)
ForeachItemsStale(rule, ctx, items, j) ==
    IF j > Len(items) THEN NoOps
    ELSE Combine(
            UnitResult(
                generateSingleOperation(rule,
                    Context(ctx.Key, ctx.Value, ctx.Datacenter, items[1])),
                "item", ctx.Key),
            ForeachItemsStale(rule, ctx, items, j + 1))

\* the loop of processForeach from item j on: [ops, warns]
RECURSIVE ForeachItems(_, _, _, _)
ForeachItems(rule, ctx, items, j) ==
    IF j > Len(items) THEN NoOps
    ELSE Combine(
            UnitResult(
                generateSingleOperation(rule,
                    Context(ctx.Key, ctx.Value, ctx.Datacenter, items[j])),
                "item", ctx.Key),
            ForeachItems(rule, ctx, items, j + 1))

\* a faulty processForeach, for C10: only the first item is processed
ForeachLoopFirst(rule, ctx, f) ==
    IF f.err THEN [err |-> TRUE, ops |-> <<>>, warns |-> <<>>]
    ELSE IF Len(f.items) = 0 THEN [err |-> FALSE, ops |-> <<>>, warns |-> <<>>]
    ELSE [err |-> FALSE] @@ ForeachItems(rule, ctx, SubSeq(f.items, 1, 1), 1)

\* processForeach, given what evaluateForeach returned: [err, ops, warns]
ForeachLoop(rule, ctx, f) ==
    IF f.err THEN [err |-> TRUE, ops |-> <<>>, warns |-> <<>>]
    ELSE IF Len(f.items) = 0 THEN [err |-> FALSE, ops |-> <<>>, warns |-> <<>>]
    ELSE [err |-> FALSE] @@ ForeachItems(rule, ctx, f.items, 1)

processForeach(rule, ctx) ==
    ForeachLoop(rule, ctx, evaluateForeach(rule.Foreach, ctx))

\* a faulty condition check, for C11: only the empty text skips the rule
GateOfEmptyOnly(result) ==
    IF result.err THEN "warn"
    ELSE IF result.text = "" THEN "skip"
    ELSE "run"

\* what the condition's text decides: "skip", "warn" (skip with a warning) or "run"
GateOf(result) ==
    IF result.err THEN "warn"
    ELSE IF result.text = "" \/ result.text = "false" \/ result.text = "<no value>"
    THEN "skip"
    ELSE "run"

\* the condition check of one rule
ConditionGate(rule, ctx) ==
    IF NonEmptyPattern(rule.Condition)
    THEN GateOf(evaluateTemplate(rule.Condition, ctx))
    ELSE "run"

\* GenerateOperations' use of processForeach's result
ForeachResult(f, key) ==
    IF f.err THEN [ops |-> <<>>, warns |-> <<Warn("foreach", key)>>]
    ELSE [ops |-> f.ops, warns |-> f.warns]

\* one iteration of GenerateOperations' loop past the condition: [ops, warns]
RuleBody(rule, ctx, gate) ==
    IF gate = "warn" THEN [ops |-> <<>>, warns |-> <<Warn("condition", ctx.Key)>>]
    ELSE IF gate = "skip" THEN NoOps
    ELSE IF NonEmptyPattern(rule.Foreach)
    THEN ForeachResult(processForeach(rule, ctx), ctx.Key)
    ELSE UnitResult(generateSingleOperation(rule, ctx), "operation", ctx.Key)

\* a faulty loop, for C23: the condition is checked for every item, in the
\* item's context
RECURSIVE GatedItems(_, _, _, _)
GatedItems(rule, ctx, items, j) ==
    IF j > Len(items) THEN NoOps
    ELSE Combine(
            RuleBody([rule EXCEPT !.Foreach = NoPat],
                     Context(ctx.Key, ctx.Value, ctx.Datacenter, items[j]),
                     ConditionGate(rule,
                         Context(ctx.Key, ctx.Value, ctx.Datacenter, items[j]))),
            GatedItems(rule, ctx, items, j + 1))

GenerateRuleGatePerItem(rule, ctx) ==
    IF NonEmptyPattern(rule.Foreach) /\ ~evaluateForeach(rule.Foreach, ctx).err
    THEN GatedItems(rule, ctx, evaluateForeach(rule.Foreach, ctx).items, 1)
    ELSE RuleBody(rule, ctx, ConditionGate(rule, ctx))

\* one iteration of GenerateOperations' loop
GenerateRule(rule, ctx) == RuleBody(rule, ctx, ConditionGate(rule, ctx))

\* GenerateOperations: the operations of all rules in order, and the warnings logged
RECURSIVE GenerateOperations(_, _)
GenerateOperations(ctx, rules) ==
    IF rules = <<>> THEN NoOps
    ELSE Combine(GenerateRule(Head(rules), ctx), GenerateOperations(ctx, Tail(rules)))

\* no function is called on its own
NoCall == [fn |-> "none"]
NoRet == [returned |-> FALSE]

\* genOut before the call
NoGen == [called |-> FALSE, ops |-> <<>>, warns |-> <<>>]

----------------------------------------------------------------------------
(* Loaders *)

\* a directory entry or file: kind is "dir", "yaml" (a .yaml or .yml file),
\* "other" (another file) or "walkerr" (filepath.Walk reports an error for
\* it); status is "ok", "unreadable" or "unparseable"; vars is what the YAML
\* holds: record key |-> value
Entry(name, kind, status, recs) ==
    [name |-> name, kind |-> kind, status |-> status, vars |-> recs]

\* loadYAMLFile: [err, vars]; err = "" is nil
loadYAMLFile(file) ==
    CASE file.status = "unreadable" -> [err |-> "failed to read file", vars |-> EmptyMap]
      [] file.status = "unparseable" -> [err |-> "failed to parse YAML", vars |-> EmptyMap]
      [] OTHER -> [err |-> "", vars |-> file.vars]

\* mergeVars' loop over the keys of source not yet visited: [vars, added, dups]
RECURSIVE mergeLoop(_, _, _)
mergeLoop(target, source, keys) ==
    IF keys = {} THEN [vars |-> target, added |-> 0, dups |-> {}]
    ELSE LET key == CHOOSE x \in keys : TRUE IN
         IF key \in DOMAIN target
         THEN LET r == mergeLoop(target, source, keys \ {key}) IN
              [vars |-> r.vars, added |-> r.added, dups |-> r.dups \cup {key}]
         ELSE LET r == mergeLoop([x \in DOMAIN target \cup {key} |->
                                     IF x = key THEN source[key] ELSE target[x]],
                                 source, keys \ {key})
              IN [vars |-> r.vars, added |-> r.added + 1, dups |-> r.dups]

\* a faulty mergeVars, for C19: the later source wins
mergeVarsLastWins(target, source) ==
    [vars |-> [x \in DOMAIN target \cup DOMAIN source |->
                  IF x \in DOMAIN source THEN source[x] ELSE target[x]],
     added |-> Cardinality(DOMAIN source \ DOMAIN target),
     dups |-> DOMAIN source \cap DOMAIN target]

mergeVars(target, source) == mergeLoop(target, source, DOMAIN source)

\* loadVarsFromDirectory's log of what mergeVars returned for a file
Loaded(name, nodeCount) == [what |-> "loaded", key |-> name, count |-> nodeCount]

\* a faulty loadMapping, for C8: a mapping without rules is accepted
loadMappingAllowEmpty(file) ==
    CASE file.status = "unreadable" -> [err |-> "failed to read mapping file", rules |-> <<>>]
      [] file.status = "unparseable" -> [err |-> "failed to parse mapping YAML", rules |-> <<>>]
      [] OTHER -> [err |-> "", rules |-> file.rules]

\* loadMapping: [err, rules]
loadMapping(file) ==
    CASE file.status = "unreadable" -> [err |-> "failed to read mapping file", rules |-> <<>>]
      [] file.status = "unparseable" -> [err |-> "failed to parse mapping YAML", rules |-> <<>>]
      [] Len(file.rules) = 0 -> [err |-> "no operations defined in mapping", rules |-> <<>>]
      [] OTHER -> [err |-> "", rules |-> file.rules]

----------------------------------------------------------------------------
(* Output modes: output.go *)

\* outputPayload's loop from index idx on: one object per batch
RECURSIVE payloadLines(_, _)
payloadLines(ops, idx) ==
    IF ~(idx < Len(ops)) THEN <<>>
    ELSE LET end == min(idx + 64, Len(ops))
             batch == SubSeq(ops, idx + 1, end)
             batchNum == (idx \div 64) + 1
             rest == payloadLines(ops, idx + 64)
         IN IF \A j \in 1..Len(batch) : Marshalable(batch[j])
            THEN <<[batch |-> batchNum, size |-> Len(batch), operations |-> batch]>> \o rest
            ELSE rest

outputPayload(ops) == [kind |-> "payload", lines |-> payloadLines(ops, 0)]

\* countOperationTypes, one kind
CountKind(ops, kind) ==
    Cardinality({j \in 1..Len(ops) :
        CASE kind = "Node" -> "Node" \in DOMAIN ops[j].m
          [] kind = "Service" -> "Node" \notin DOMAIN ops[j].m /\ "Service" \in DOMAIN ops[j].m
          [] OTHER -> /\ "Node" \notin DOMAIN ops[j].m
                      /\ "Service" \notin DOMAIN ops[j].m
                      /\ "Check" \in DOMAIN ops[j].m})

printDryRun(ops) ==
    [kind |-> "dryrun", total |-> Len(ops),
     node |-> CountKind(ops, "Node"), service |-> CountKind(ops, "Service"),
     check |-> CountKind(ops, "Check"),
     batches |-> (Len(ops) + 64 - 1) \div 64]

NoOutput == [kind |-> "none"]

----------------------------------------------------------------------------
(* main *)

Running == [state |-> "running", why |-> ""]
ExitOk == [state |-> "ok", why |-> ""]
Fatal(why) == [state |-> "fatal", why |-> why]

\* the program's variables while a function is called on its own
MainIdle ==
    /\ config = [Payload |-> FALSE, DryRun |-> FALSE]
    /\ varsPath = [exists |-> FALSE, isDir |-> FALSE, files |-> <<>>]
    /\ mappingFile = [status |-> "unreadable", rules |-> <<>>]
    /\ walkIdx = 0
    /\ allVars = EmptyMap
    /\ mappingConfig = <<>>
    /\ pending = {}
    /\ allOperations = <<>>
    /\ logs = <<>>
    /\ output = NoOutput
    /\ exit = Running

\* loadVars up to the walk: os.Stat, and the single file
LoadVars ==
    /\ pc = "main"
    /\ IF ~varsPath.exists
       THEN /\ exit' = Fatal("Failed to load vars: cannot access vars path")
            /\ pc' = "exited"
            /\ UNCHANGED <<walkIdx, allVars>>
       ELSE IF ~varsPath.isDir
       THEN LET r == loadYAMLFile(varsPath.files[1]) IN
            IF r.err # ""
            THEN /\ exit' = Fatal("Failed to load vars: " \o r.err)
                 /\ pc' = "exited"
                 /\ UNCHANGED <<walkIdx, allVars>>
            ELSE IF DOMAIN r.vars = {}
            THEN /\ exit' = Fatal("Failed to load vars: no nodes found")
                 /\ pc' = "exited"
                 /\ UNCHANGED <<walkIdx, allVars>>
            ELSE /\ allVars' = r.vars
                 /\ pc' = "load_mapping"
                 /\ UNCHANGED <<walkIdx, exit>>
       ELSE /\ walkIdx' = 1
            /\ allVars' = EmptyMap
            /\ pc' = "walk"
            /\ UNCHANGED exit
    /\ UNCHANGED <<mappingConfig, pending, allOperations, logs, output>>
    /\ UNCHANGED <<execVars, genVars, callVars, inputVars>>

\* a faulty walk callback, for C9: a file that cannot be loaded ends the walk
WalkEntryAbort ==
    /\ pc = "walk"
    /\ walkIdx <= Len(varsPath.files)
    /\ LET e == varsPath.files[walkIdx] IN
       CASE e.kind = "walkerr" \/ (e.kind = "yaml" /\ e.status # "ok") ->
               /\ exit' = Fatal("Failed to load vars: failed to walk directory")
               /\ pc' = "exited"
               /\ UNCHANGED <<walkIdx, allVars, logs>>
         [] e.kind \in {"dir", "other"} ->
               /\ walkIdx' = walkIdx + 1
               /\ UNCHANGED <<pc, allVars, logs, exit>>
         [] OTHER ->
               /\ allVars' = mergeVars(allVars, e.vars).vars
               /\ logs' = logs \o
                     [j \in 1..Cardinality(mergeVars(allVars, e.vars).dups) |->
                         [what |-> "duplicate", key |-> e.name]]
                     \o <<Loaded(e.name, mergeVars(allVars, e.vars).added)>>
               /\ walkIdx' = walkIdx + 1
               /\ UNCHANGED <<pc, exit>>
    /\ UNCHANGED <<mappingConfig, pending, allOperations, output>>
    /\ UNCHANGED <<execVars, genVars, callVars, inputVars>>

\* filepath.Walk's callback on one entry of the directory
WalkEntry ==
    /\ pc = "walk"
    /\ walkIdx <= Len(varsPath.files)
    /\ LET e == varsPath.files[walkIdx] IN
       CASE e.kind = "walkerr" ->
               /\ exit' = Fatal("Failed to load vars: failed to walk directory")
               /\ pc' = "exited"
               /\ UNCHANGED <<walkIdx, allVars, logs>>
         [] e.kind \in {"dir", "other"} ->
               /\ walkIdx' = walkIdx + 1
               /\ UNCHANGED <<pc, allVars, logs, exit>>
         [] OTHER ->
               LET r == loadYAMLFile(e) IN
               IF r.err # ""
               THEN /\ logs' = Append(logs, [what |-> "parse", key |-> e.name])
                    /\ walkIdx' = walkIdx + 1
                    /\ UNCHANGED <<pc, allVars, exit>>
               ELSE LET m == mergeVars(allVars, r.vars) IN
                    /\ allVars' = m.vars
                    /\ logs' = logs \o
                          [j \in 1..Cardinality(m.dups) |-> [what |-> "duplicate", key |-> e.name]]
                          \o <<Loaded(e.name, m.added)>>
                    /\ walkIdx' = walkIdx + 1
                    /\ UNCHANGED <<pc, exit>>
    /\ UNCHANGED <<mappingConfig, pending, allOperations, output>>
    /\ UNCHANGED <<execVars, genVars, callVars, inputVars>>

\* the walk is over: loadVars' check for an empty record set
WalkEnd ==
    /\ pc = "walk"
    /\ walkIdx > Len(varsPath.files)
    /\ IF DOMAIN allVars = {}
       THEN /\ exit' = Fatal("Failed to load vars: no nodes found")
            /\ pc' = "exited"
       ELSE /\ pc' = "load_mapping"
            /\ UNCHANGED exit
    /\ UNCHANGED <<walkIdx, allVars, mappingConfig, pending, allOperations, logs, output>>
    /\ UNCHANGED <<execVars, genVars, callVars, inputVars>>

\* main's loadMapping, and generateAllOperations up to its loop
LoadMapping ==
    /\ pc = "load_mapping"
    /\ LET r == loadMapping(mappingFile) IN
       IF r.err # ""
       THEN /\ exit' = Fatal("Failed to load mapping: " \o r.err)
            /\ pc' = "exited"
            /\ UNCHANGED <<mappingConfig, pending>>
       ELSE /\ mappingConfig' = r.rules
            /\ pending' = DOMAIN allVars
            /\ pc' = "generate"
            /\ UNCHANGED exit
    /\ UNCHANGED <<walkIdx, allVars, allOperations, logs, output>>
    /\ UNCHANGED <<execVars, genVars, callVars, inputVars>>

\* one iteration of generateAllOperations' loop; a Go map is ranged over in
\* any order
GenerateRecord ==
    /\ pc = "generate"
    /\ \E key \in pending :
        /\ pending' = pending \ {key}
        /\ IF allVars[key].k # "map"
           THEN /\ logs' = Append(logs, [what |-> "invalid node", key |-> key])
                /\ UNCHANGED allOperations
           ELSE LET ctx == Context(key, allVars[key].m, "dc1", VNil)
                    r == GenerateOperations(ctx, mappingConfig)
                IN /\ allOperations' = allOperations \o r.ops
                   /\ logs' = logs \o r.warns
    /\ UNCHANGED <<pc, walkIdx, allVars, mappingConfig, output, exit>>
    /\ UNCHANGED <<execVars, genVars, callVars, inputVars>>

\* a faulty executeMode, for C7: the dry run prints its summary and goes on
\* to ExecuteOperations
ExecuteModeDryRunSends ==
    /\ pc = "generate"
    /\ pending = {}
    /\ IF config.Payload
       THEN /\ output' = outputPayload(allOperations)
            /\ exit' = ExitOk
            /\ pc' = "exited"
            /\ UNCHANGED operations
       ELSE /\ output' = (IF config.DryRun THEN printDryRun(allOperations) ELSE output)
            /\ operations' = allOperations
            /\ pc' = "exec_entry"
            /\ UNCHANGED exit
    /\ UNCHANGED <<walkIdx, allVars, mappingConfig, pending, allOperations, logs>>
    /\ UNCHANGED <<consulAddr, i, submitted, inFlight, outcomes, execResult>>
    /\ UNCHANGED <<genVars, callVars, inputVars>>

\* generateAllOperations returns; executeMode up to the call of ExecuteOperations
ExecuteMode ==
    /\ pc = "generate"
    /\ pending = {}
    /\ IF config.Payload
       THEN /\ output' = outputPayload(allOperations)
            /\ exit' = ExitOk
            /\ pc' = "exited"
            /\ UNCHANGED operations
       ELSE IF config.DryRun
       THEN /\ output' = printDryRun(allOperations)
            /\ exit' = ExitOk
            /\ pc' = "exited"
            /\ UNCHANGED operations
       ELSE /\ operations' = allOperations
            /\ pc' = "exec_entry"
            /\ UNCHANGED <<output, exit>>
    /\ UNCHANGED <<walkIdx, allVars, mappingConfig, pending, allOperations, logs>>
    /\ UNCHANGED <<consulAddr, i, submitted, inFlight, outcomes, execResult>>
    /\ UNCHANGED <<genVars, callVars, inputVars>>

\* ExecuteOperations has returned to executeMode
ExecuteModeReturn ==
    /\ pc = "exec_ret"
    /\ exit.state = "running"
    /\ exit' = IF execResult.err # ""
               THEN Fatal("Failed to execute operations: " \o execResult.err)
               ELSE ExitOk
    /\ pc' = "exited"
    /\ UNCHANGED <<walkIdx, allVars, mappingConfig, pending, allOperations, logs, output>>
    /\ UNCHANGED <<execVars, genVars, callVars, inputVars>>

----------------------------------------------------------------------------
(* Batch executor: consul.go *)

maxOperationsPerTransaction == 64

\* (len(operations) + 64 - 1) / 64
totalBatches(ops) ==
    (Len(ops) + maxOperationsPerTransaction - 1) \div maxOperationsPerTransaction

\* operations[i:end]
SliceOps(ops, from, end) == SubSeq(ops, from + 1, end)

\* a faulty BatchAt, for C1: the slice ends one operation early
BatchAtShort(ops, idx) ==
    SliceOps(ops, idx, min(idx + maxOperationsPerTransaction - 1, Len(ops)))

\* end := min(i+64, len(operations)); batch := operations[i:end]
BatchAt(ops, idx) ==
    SliceOps(ops, idx, min(idx + maxOperationsPerTransaction, Len(ops)))

\* batchNum := (i / 64) + 1
BatchNum(idx) == (idx \div maxOperationsPerTransaction) + 1

\* the loop's step: i += maxOperationsPerTransaction
NextIndex(idx) == idx + maxOperationsPerTransaction

\* json.Marshal(operations) of one batch
MarshalOk(batch) == \A j \in 1..Len(batch) : Marshalable(batch[j])

(* The body of a transaction response: the JSON text the service writes.   *)
TxnError(opIndex, what) == [OpIndex |-> opIndex, What |-> what]

RECURSIVE EncodeErrors(_)
EncodeErrors(errs) ==
    IF errs = <<>> THEN ""
    ELSE "{\"OpIndex\":" \o ToString(Head(errs).OpIndex)
            \o ",\"What\":\"" \o Head(errs).What \o "\"}"
            \o (IF Len(errs) > 1 THEN "," ELSE "")
            \o EncodeErrors(Tail(errs))

EncodeTxnResponse(errs) == "{\"Errors\":[" \o EncodeErrors(errs) \o "]}"

\* the error lists a 409 body of the model may carry
ErrorLists ==
    { <<>>,
      <<TxnError(3, "duplicate")>>,
      <<TxnError(0, "missing node")>>,
      <<TxnError(7, "missing node"), TxnError(3, "duplicate")>> }

\* other bodies: JSON without an Errors member, and text that is no JSON
ResultsBody == "{\"Results\":[]}"
PlainBody == "rolled back"

Bodies == { EncodeTxnResponse(e) : e \in ErrorLists } \cup { ResultsBody, PlainBody }

\* json.Unmarshal(body, &result) into TransactionResponse
UnmarshalTxnResponse(body) ==
    IF \E e \in ErrorLists : EncodeTxnResponse(e) = body
    THEN [ok |-> TRUE, Errors |-> CHOOSE e \in ErrorLists : EncodeTxnResponse(e) = body]
    ELSE IF body = ResultsBody
    THEN [ok |-> TRUE, Errors |-> <<>>]
    ELSE [ok |-> FALSE, Errors |-> <<>>]

\* a faulty formatTransactionErrors, for C3: it reports the last error
formatLastTransactionError(errors) ==
    IF Len(errors) = 0
    THEN "transaction failed with unknown error"
    ELSE "transaction failed: operation " \o ToString(errors[Len(errors)].OpIndex)
            \o ": " \o errors[Len(errors)].What

formatTransactionErrors(errors) ==
    IF Len(errors) = 0
    THEN "transaction failed with unknown error"
    ELSE "transaction failed: operation " \o ToString(errors[1].OpIndex)
            \o ": " \o errors[1].What

handleTransactionConflict(body, statusCode) ==
    LET result == UnmarshalTxnResponse(body) IN
    IF result.ok
    THEN formatTransactionErrors(result.Errors)
    ELSE "transaction rolled back (status " \o ToString(statusCode) \o "): " \o body

\* what client.Do and the read of the body can produce
StatusOK == 200
StatusConflict == 409
Statuses == {200, 201, 409, 500}

SendError == [kind |-> "senderr"]
Response(status, readOk, body) ==
    [kind |-> "resp", status |-> status, readOk |-> readOk, body |-> body]

Outcomes ==
    {SendError}
    \cup { Response(s, FALSE, "") : s \in Statuses }
    \cup { Response(StatusConflict, TRUE, b) : b \in Bodies }
    \cup { Response(s, TRUE, b) : s \in Statuses \ {StatusConflict},
                                  b \in {ResultsBody, PlainBody} }

\* a faulty processResponse, for C4: every 2xx status counts as success
processResponseAny2xx(resp) ==
    IF ~resp.readOk THEN "failed to read response: unexpected EOF"
    ELSE IF resp.status \in 200..299 THEN ""
    ELSE IF resp.status = StatusConflict
    THEN handleTransactionConflict(resp.body, resp.status)
    ELSE "HTTP " \o ToString(resp.status) \o ": " \o resp.body

\* processResponse: "" is a nil error
processResponse(resp) ==
    IF ~resp.readOk THEN "failed to read response: unexpected EOF"
    ELSE IF resp.status = StatusOK THEN ""
    ELSE IF resp.status = StatusConflict
    THEN handleTransactionConflict(resp.body, resp.status)
    ELSE "HTTP " \o ToString(resp.status) \o ": " \o resp.body

\* executeTransaction after client.Do has returned
transactionResult(outcome) ==
    IF outcome.kind = "senderr"
    THEN "failed to send request: connection refused"
    ELSE processResponse(outcome)

\* fmt.Errorf("batch %d failed: %w", batchNum, err)
batchError(batchNum, err) == "batch " \o ToString(batchNum) \o " failed: " \o err

\* a faulty ExecEnter, for C6: an empty list is sent as one empty batch
ExecEnterSendsEmpty ==
    /\ pc = "exec_entry"
    /\ IF Len(operations) = 0
       THEN /\ submitted' = Append(submitted, [num |-> 1, ops |-> <<>>])
            /\ inFlight' = inFlight \cup {1}
            /\ pc' = "exec_wait"
       ELSE /\ pc' = "exec_loop"
            /\ UNCHANGED <<submitted, inFlight>>
    /\ i' = 0
    /\ UNCHANGED <<consulAddr, operations, outcomes, execResult>>
    /\ UNCHANGED <<genVars, callVars, inputVars, mainVars>>

\* ExecuteOperations up to its loop
ExecEnter ==
    /\ pc = "exec_entry"
    /\ IF Len(operations) = 0
       THEN /\ execResult' = [done |-> TRUE, err |-> ""]
            /\ pc' = "exec_ret"
            /\ UNCHANGED i
       ELSE /\ i' = 0
            /\ pc' = "exec_loop"
            /\ UNCHANGED execResult
    /\ UNCHANGED <<consulAddr, operations, submitted, inFlight, outcomes>>
    /\ UNCHANGED <<genVars, callVars, inputVars, mainVars>>

\* a faulty ExecBatch, for C2: the request is sent and the loop steps on
\* without waiting for the response
ExecBatchNoWait ==
    /\ pc = "exec_loop"
    /\ i < Len(operations)
    /\ submitted' = Append(submitted,
                           [num |-> BatchNum(i), ops |-> BatchAt(operations, i)])
    /\ inFlight' = inFlight \cup {BatchNum(i)}
    /\ i' = NextIndex(i)
    /\ UNCHANGED <<pc, consulAddr, operations, outcomes, execResult>>
    /\ UNCHANGED <<genVars, callVars, inputVars, mainVars>>

\* one iteration up to client.Do: the batch is cut, marshalled and sent
ExecBatch ==
    /\ pc = "exec_loop"
    /\ i < Len(operations)
    /\ LET batch == BatchAt(operations, i)
           batchNum == BatchNum(i)
       IN
       IF ~MarshalOk(batch)
       THEN /\ execResult' = [done |-> TRUE,
                               err |-> batchError(batchNum,
                                   "failed to marshal operations: json: unsupported type")]
            /\ pc' = "exec_ret"
            /\ UNCHANGED <<submitted, inFlight>>
       ELSE IF ~consulAddr.valid
       THEN /\ execResult' = [done |-> TRUE,
                               err |-> batchError(batchNum,
                                   "failed to create request: invalid URL")]
            /\ pc' = "exec_ret"
            /\ UNCHANGED <<submitted, inFlight>>
       ELSE /\ submitted' = Append(submitted, [num |-> batchNum, ops |-> batch])
            /\ inFlight' = inFlight \cup {batchNum}
            /\ pc' = "exec_wait"
            /\ UNCHANGED execResult
    /\ UNCHANGED <<consulAddr, operations, i, outcomes>>
    /\ UNCHANGED <<genVars, callVars, inputVars, mainVars>>

\* a faulty ExecResponse, for C5: the first failed batch is sent once more
ExecResponseRetry ==
    /\ pc = "exec_wait"
    /\ \E outcome \in Outcomes :
        /\ outcomes' = Append(outcomes, outcome)
        /\ inFlight' = inFlight \ {BatchNum(i)}
        /\ IF transactionResult(outcome) = ""
           THEN /\ i' = NextIndex(i)
                /\ pc' = "exec_loop"
                /\ UNCHANGED execResult
           ELSE IF Len(submitted) = BatchNum(i)
           THEN /\ pc' = "exec_loop"
                /\ UNCHANGED <<i, execResult>>
           ELSE /\ execResult' = [done |-> TRUE,
                                   err |-> batchError(BatchNum(i), transactionResult(outcome))]
                /\ pc' = "exec_ret"
                /\ UNCHANGED i
    /\ UNCHANGED <<consulAddr, operations, submitted>>
    /\ UNCHANGED <<genVars, callVars, inputVars, mainVars>>

\* client.Do returns (a response, an error or the 30 s timeout) and the
\* response is processed; on success the loop steps on
ExecResponse ==
    /\ pc = "exec_wait"
    /\ \E outcome \in Outcomes :
        LET batchNum == BatchNum(i)
            err == transactionResult(outcome)
        IN
        /\ outcomes' = Append(outcomes, outcome)
        /\ inFlight' = inFlight \ {batchNum}
        /\ IF err # ""
           THEN /\ execResult' = [done |-> TRUE, err |-> batchError(batchNum, err)]
                /\ pc' = "exec_ret"
                /\ UNCHANGED i
           ELSE /\ i' = NextIndex(i)
                /\ pc' = "exec_loop"
                /\ UNCHANGED execResult
    /\ UNCHANGED <<consulAddr, operations, submitted>>
    /\ UNCHANGED <<genVars, callVars, inputVars, mainVars>>

\* the loop ends: return nil
ExecReturn ==
    /\ pc = "exec_loop"
    /\ ~(i < Len(operations))
    /\ execResult' = [done |-> TRUE, err |-> ""]
    /\ pc' = "exec_ret"
    /\ UNCHANGED <<consulAddr, operations, i, submitted, inFlight, outcomes>>
    /\ UNCHANGED <<genVars, callVars, inputVars, mainVars>>

NextExec == ExecEnter \/ ExecBatch \/ ExecResponse \/ ExecReturn

----------------------------------------------------------------------------
(* ExecuteOperations called on its own with any operation list *)

\* the j-th operation of a synthetic list; a bad one carries a value
\* json.Marshal rejects
SyntheticOp(j, bad) ==
    wrapNodeOperation("set",
        IF bad THEN [Node |-> VStr("n" \o ToString(j)), Meta |-> VIMap]
               ELSE [Node |-> VStr("n" \o ToString(j))])

SyntheticOps(n, badAt) == [j \in 1..n |-> SyntheticOp(j, j = badAt)]

\* where the one unmarshalable operation may sit (0: nowhere)
BadPositions(n) == {0, 1, maxOperationsPerTransaction + 1, n} \cap 0..n

InitExec ==
    /\ pc = "exec_entry"
    /\ consulAddr \in {[valid |-> TRUE], [valid |-> FALSE]}
    /\ \E n \in 0..MaxOps : \E badAt \in BadPositions(n) :
          operations = SyntheticOps(n, badAt)
    /\ i = 0
    /\ submitted = <<>>
    /\ inFlight = {}
    /\ outcomes = <<>>
    /\ execResult = [done |-> FALSE, err |-> ""]
    /\ genCtx = Context("", EmptyMap, "", VNil)
    /\ genRules = <<>>
    /\ genOut = NoGen
    /\ call = NoCall
    /\ ret = NoRet
    /\ MainIdle

SpecExec == InitExec /\ [][NextExec]_vars

\* the request timeout bounds every wait, and the thread runs on
FairSpecExec == SpecExec /\ WF_vars(NextExec)

----------------------------------------------------------------------------
(* GenerateOperations called on its own with any context and rule list *)

\* rule lists of up to MaxRules rules out of the pool
RuleLists == UNION { [1..n -> RulePool] : n \in 0..MaxRules }

GenContexts == { Context(key, Records[key], "dc1", VNil) : key \in DOMAIN Records }

InitGen ==
    /\ pc = "gen_entry"
    /\ genCtx \in GenContexts
    /\ genRules \in RuleLists
    /\ genOut = NoGen
    /\ call = NoCall
    /\ ret = NoRet
    /\ consulAddr = [valid |-> TRUE]
    /\ operations = <<>>
    /\ i = 0
    /\ submitted = <<>>
    /\ inFlight = {}
    /\ outcomes = <<>>
    /\ execResult = [done |-> FALSE, err |-> ""]
    /\ MainIdle

GenCall ==
    /\ pc = "gen_entry"
    /\ LET r == GenerateOperations(genCtx, genRules) IN
          genOut' = [called |-> TRUE, ops |-> r.ops, warns |-> r.warns]
    /\ pc' = "gen_ret"
    /\ UNCHANGED <<genCtx, genRules>>
    /\ UNCHANGED <<execVars, callVars, inputVars, mainVars>>

NextGen == GenCall

SpecGen == InitGen /\ [][NextGen]_vars

----------------------------------------------------------------------------
(* The whole program *)

\* the entries of the model, by name: b holds a record key that a holds too,
\* with other fields; c holds a record that is no mapping
Files ==
    [ a |-> Entry("a.yaml", "yaml", "ok",
                  [key \in {"web-01", ToString(7)} |-> VMap(Records[key])]),
      b |-> Entry("b.yml", "yaml", "ok",
                  [key \in {"web-01", "edge"} |->
                      IF key = "edge" THEN VMap(Records["edge"])
                      ELSE VMap(Records["db-02"])]),
      c |-> Entry("c.yaml", "yaml", "ok", [key \in {"junk"} |-> VStr("oops")]),
      empty |-> Entry("empty.yaml", "yaml", "ok", EmptyMap),
      unparseable |-> Entry("broken.yaml", "yaml", "unparseable", EmptyMap),
      unreadable |-> Entry("locked.yaml", "yaml", "unreadable", EmptyMap),
      text |-> Entry("notes.txt", "other", "ok", [key \in {"db-02"} |-> VMap(Records["db-02"])]),
      walkError |-> Entry("sub", "walkerr", "ok", EmptyMap) ]

\* the directory itself, which the walk visits first
RootDir == Entry(".", "dir", "ok", EmptyMap)

FilePool == { Files[n] : n \in DOMAIN Files }

\* a single file is read whatever its name
SingleFiles == FilePool \ { Files.walkError }

VarsPaths ==
    { [exists |-> FALSE, isDir |-> FALSE, files |-> <<>>] }
    \cup { [exists |-> TRUE, isDir |-> FALSE, files |-> <<f>>] : f \in SingleFiles }
    \cup { [exists |-> TRUE, isDir |-> TRUE, files |-> <<RootDir>> \o fs] :
              fs \in UNION { [1..n -> FilePool] : n \in 0..MaxFiles } }

MappingFiles ==
    { [status |-> "unreadable", rules |-> <<>>],
      [status |-> "unparseable", rules |-> <<>>],
      [status |-> "ok", rules |-> <<>>],
      [status |-> "ok", rules |-> <<Rules.Node, Rules.ServiceEach>>],
      [status |-> "ok", rules |-> <<Rules.ServiceEach, Rules.CheckDefault, Rules.Node>>],
      [status |-> "ok",
       rules |-> <<Rules.BadTemplate, Rules.UnknownType, Rules.ServiceEach, Rules.Node>>] }

Init ==
    /\ pc = "main"
    /\ config \in [Payload : BOOLEAN, DryRun : BOOLEAN]
    /\ varsPath \in VarsPaths
    /\ mappingFile \in MappingFiles
    /\ walkIdx = 0
    /\ allVars = EmptyMap
    /\ mappingConfig = <<>>
    /\ pending = {}
    /\ allOperations = <<>>
    /\ logs = <<>>
    /\ output = NoOutput
    /\ exit = Running
    /\ consulAddr = [valid |-> TRUE]
    /\ operations = <<>>
    /\ i = 0
    /\ submitted = <<>>
    /\ inFlight = {}
    /\ outcomes = <<>>
    /\ execResult = [done |-> FALSE, err |-> ""]
    /\ genCtx = Context("", EmptyMap, "", VNil)
    /\ genRules = <<>>
    /\ genOut = NoGen
    /\ call = NoCall
    /\ ret = NoRet

Next ==
    \/ LoadVars
    \/ WalkEntry
    \/ WalkEnd
    \/ LoadMapping
    \/ GenerateRecord
    \/ ExecuteMode
    \/ ExecEnter
    \/ ExecBatch
    \/ ExecResponse
    \/ ExecReturn
    \/ ExecuteModeReturn

Spec == Init /\ [][Next]_vars

----------------------------------------------------------------------------
(* Properties of the batch executor *)

\* the least b with b * d >= n
CeilDiv(n, d) == CHOOSE b \in 0..n : b * d >= n /\ (b - 1) * d < n

RECURSIVE ConcatBatches(_)
ConcatBatches(reqs) ==
    IF reqs = <<>> THEN <<>> ELSE Head(reqs).ops \o ConcatBatches(Tail(reqs))

\* a response read to its end with status 200
Answered200(o) == o.kind = "resp" /\ o.readOk /\ o.status = 200

\* a response read to its end
Received(o) == o.kind = "resp" /\ o.readOk

ExpectedBatches == CeilDiv(Len(operations), 64)

Succeeded == execResult.done /\ execResult.err = ""
Failed == execResult.done /\ execResult.err # ""

\* C1: the batches submitted are consecutive slices of the operation list:
\* every batch before the ceil(N/64)-th holds exactly 64 operations, the
\* ceil(N/64)-th between 1 and 64, their concatenation in submission order is
\* a prefix of the list, and after a successful run of N >= 1 operations
\* there are exactly ceil(N/64) of them and the concatenation is the list.
C1_Partition ==
    /\ Len(submitted) <= ExpectedBatches
    /\ \A k \in 1..Len(submitted) :
          IF k < ExpectedBatches
          THEN Len(submitted[k].ops) = 64
          ELSE Len(submitted[k].ops) \in 1..64
    /\ LET cat == ConcatBatches(submitted) IN
          /\ Len(cat) <= Len(operations)
          /\ cat = SubSeq(operations, 1, Len(cat))
    /\ (Succeeded /\ Len(operations) >= 1) =>
          /\ Len(submitted) = ExpectedBatches
          /\ ConcatBatches(submitted) = operations

C1_Witness ==
    /\ Succeeded
    /\ Len(operations) = 129
    /\ Len(submitted) = 3
    /\ Len(submitted[3].ops) = 1

\* C2: at most one request is in flight; the batches submitted so far are
\* batches 1..j of the list, in order; and every batch before the latest one
\* was answered with status 200 before the next was sent.
C2_Sequential ==
    /\ Cardinality(inFlight) <= 1
    /\ \A k \in 1..Len(submitted) :
          /\ submitted[k].num = k
          /\ submitted[k].ops =
                SubSeq(operations, 64 * (k - 1) + 1, min(64 * k, Len(operations)))
    /\ Len(outcomes) <= Len(submitted)
    /\ Len(submitted) <= Len(outcomes) + 1
    /\ inFlight = (IF Len(outcomes) < Len(submitted) THEN {Len(submitted)} ELSE {})
    /\ \A k \in 1..Len(submitted) - 1 : Answered200(outcomes[k])

C2_Witness ==
    /\ Len(submitted) = 2
    /\ inFlight = {2}
    /\ Len(outcomes) = 1

\* C3: a 409 answer to batch k whose body carries a non-empty Errors list
\* ends the run with an error naming batch k and the OpIndex and What of the
\* first entry, and batch k is the last batch submitted.
C3_Conflict ==
    \A k \in 1..Len(outcomes) : \A e \in ErrorLists :
        (e # <<>> /\ outcomes[k] = Response(409, TRUE, EncodeTxnResponse(e))) =>
            /\ execResult.done
            /\ execResult.err =
                  "batch " \o ToString(k) \o " failed: transaction failed: operation "
                     \o ToString(e[1].OpIndex) \o ": " \o e[1].What
            /\ Len(submitted) = k

C3_Witness ==
    /\ Len(operations) = 129
    /\ Len(outcomes) = 2
    /\ outcomes[2] = Response(409, TRUE,
          EncodeTxnResponse(<<TxnError(7, "missing node"), TxnError(3, "duplicate")>>))
    /\ execResult.done

\* C4: an outcome of batch k that is neither a 200 nor a 409 response (another
\* status, 201 included, or a transport failure: client.Do failing, or the
\* body read failing) ends the run with an error for batch k, batch k is the
\* last batch submitted, and when the response was received, body included,
\* the error carries its status and body.
C4_OtherOutcome ==
    \A k \in 1..Len(outcomes) :
        LET o == outcomes[k] IN
        ~(Received(o) /\ o.status \in {200, 409}) =>
            /\ Failed
            /\ Len(submitted) = k
            /\ IF Received(o)
               THEN execResult.err =
                       "batch " \o ToString(k) \o " failed: HTTP "
                          \o ToString(o.status) \o ": " \o o.body
               ELSE execResult.err \in
                       { "batch " \o ToString(k) \o " failed: failed to send request: connection refused",
                         "batch " \o ToString(k) \o " failed: failed to read response: unexpected EOF" }

C4_Witness ==
    /\ Len(operations) = 129
    /\ Len(outcomes) = 2
    /\ outcomes[2] = Response(201, TRUE, ResultsBody)
    /\ Failed

\* no batch is submitted twice, and never more than ceil(N/64) requests
NoRetry ==
    /\ \A j, k \in 1..Len(submitted) :
          j # k => (submitted[j].num # submitted[k].num /\ submitted[j].ops # submitted[k].ops)
    /\ Len(submitted) <= ExpectedBatches

EndsInSuccess ==
    /\ Succeeded
    /\ Len(submitted) = ExpectedBatches
    /\ Len(outcomes) = ExpectedBatches
    /\ \A k \in 1..Len(outcomes) : Answered200(outcomes[k])

EndsAfterFirstNon200 ==
    /\ Failed
    /\ Len(outcomes) = Len(submitted)
    /\ Len(outcomes) >= 1
    /\ ~Answered200(outcomes[Len(outcomes)])
    /\ \A k \in 1..Len(outcomes) - 1 : Answered200(outcomes[k])

\* the run fails before sending batch j+1, every earlier batch answered 200:
\* the batch cannot be marshalled, or no request can be made for the address
EndsBeforeSending ==
    /\ Failed
    /\ Len(outcomes) = Len(submitted)
    /\ Len(submitted) < ExpectedBatches
    /\ \A k \in 1..Len(outcomes) : Answered200(outcomes[k])
    /\ \/ ~consulAddr.valid
       \/ \E j \in 64 * Len(submitted) + 1 .. min(64 * (Len(submitted) + 1), Len(operations)) :
             ~Marshalable(operations[j])

\* C5 as stated: no retries, and a run that has ended ended in success after
\* exactly ceil(N/64) requests all answered 200 or in failure right after the
\* first outcome that is not a 200.
C5_AsStated ==
    /\ NoRetry
    /\ execResult.done => (EndsInSuccess \/ EndsAfterFirstNon200)

C5_Safe ==
    /\ NoRetry
    /\ execResult.done => (EndsInSuccess \/ EndsAfterFirstNon200 \/ EndsBeforeSending)

\* C5, amended: no batch is submitted twice, the run always ends, after at
\* most ceil(N/64) requests, in success after exactly ceil(N/64) requests all
\* answered 200, in failure right after the first outcome that is not a 200,
\* or in failure before sending a batch that cannot be serialized or whose
\* request cannot be built.
C5_NoRetries == [](C5_Safe) /\ <>(execResult.done)

C5_Witness ==
    /\ Len(operations) = 129
    /\ EndsAfterFirstNon200
    /\ Len(submitted) = 2

\* C6: with an empty operation list ExecuteOperations returns nil and no
\* request is ever made.
C6_EmptyNoop ==
    Len(operations) = 0 =>
        /\ submitted = <<>>
        /\ inFlight = {}
        /\ outcomes = <<>>
        /\ execResult.done => execResult.err = ""

C6_Witness ==
    /\ Len(operations) = 0
    /\ Succeeded
    /\ submitted = <<>>

----------------------------------------------------------------------------
(* Properties of the whole program *)

ExecPcs == {"exec_entry", "exec_loop", "exec_wait", "exec_ret"}

\* nothing was handed to ExecuteOperations and nothing was sent
NothingSent ==
    /\ pc \notin ExecPcs
    /\ operations = <<>>
    /\ submitted = <<>>
    /\ inFlight = {}
    /\ outcomes = <<>>
    /\ ~execResult.done

\* C7: in payload mode or in dry-run mode ExecuteOperations is never reached
\* and no request is ever sent; a run that ends well has written the payload
\* when -payload is set, whether or not -dry-run is set too, and the summary
\* when only -dry-run is set; and ExecuteOperations is reached only with
\* neither flag set.
C7_OutputModesSendNothing ==
    /\ (config.Payload \/ config.DryRun) =>
          /\ NothingSent
          /\ exit.state = "ok" =>
                output.kind = (IF config.Payload THEN "payload" ELSE "dryrun")
    /\ pc \in ExecPcs => (~config.Payload /\ ~config.DryRun)
    /\ submitted # <<>> => (~config.Payload /\ ~config.DryRun)

C7_Witness ==
    /\ config.Payload
    /\ config.DryRun
    /\ exit.state = "ok"
    /\ output.kind = "payload"
    /\ Len(allOperations) >= 1
    /\ NothingSent

\* the files of the vars path that hold records the loader can read: the one
\* file of a single-file path, the .yaml and .yml files of a directory
RecordFiles ==
    IF ~varsPath.exists THEN {}
    ELSE IF ~varsPath.isDir
    THEN {j \in {1} : varsPath.files[j].status = "ok"}
    ELSE {j \in 1..Len(varsPath.files) :
             varsPath.files[j].kind = "yaml" /\ varsPath.files[j].status = "ok"}

\* the record keys these files hold
SourceKeys == UNION { DOMAIN varsPath.files[j].vars : j \in RecordFiles }

ConfigurationError ==
    \/ SourceKeys = {}
    \/ mappingFile.status # "ok"
    \/ Len(mappingFile.rules) = 0

\* no operation was generated and nothing was sent
AbortedAtStartup ==
    /\ pc \in {"main", "walk", "load_mapping", "exited"}
    /\ pending = {}
    /\ allOperations = <<>>
    /\ output = NoOutput
    /\ NothingSent
    /\ exit.state # "ok"
    /\ pc = "exited" => exit.state = "fatal"

\* C8: when the record set the vars path holds is empty, the mapping file
\* cannot be read or parsed, or the mapping has no rules, the run never
\* generates an operation, never sends a request and writes no output, and it
\* can only end with a fatal error.
C8_ConfigurationErrorsAbort == ConfigurationError => AbortedAtStartup

C8_Witness ==
    /\ SourceKeys # {}
    /\ DOMAIN allVars = SourceKeys
    /\ mappingFile.status = "ok"
    /\ Len(mappingFile.rules) = 0
    /\ exit = Fatal("Failed to load mapping: no operations defined in mapping")
    /\ AbortedAtStartup

\* a record file the loader would read cannot be read or parsed
BadSingleFile ==
    /\ varsPath.exists
    /\ ~varsPath.isDir
    /\ varsPath.files[1].status # "ok"

BadWalked(j) ==
    /\ varsPath.files[j].kind = "yaml"
    /\ varsPath.files[j].status # "ok"

BadDirectoryFile ==
    /\ varsPath.exists
    /\ varsPath.isDir
    /\ \E j \in 1..Len(varsPath.files) : BadWalked(j)

\* C9 as stated: with a record file that cannot be read or parsed, in a
\* single-file path or in a directory, no operation is generated, no request
\* is sent and the run can only end with a fatal error.
C9_AsStated == (BadSingleFile \/ BadDirectoryFile) => AbortedAtStartup

\* the first file of the directory that holds the record key
FirstHolder(key) ==
    CHOOSE j \in RecordFiles :
        /\ key \in DOMAIN varsPath.files[j].vars
        /\ \A h \in RecordFiles : key \in DOMAIN varsPath.files[h].vars => j <= h

\* the warnings logged for files that could not be loaded
ParseWarnings == {n \in 1..Len(logs) : logs[n].what = "parse"}

\* C9, amended: a single record file that cannot be read or parsed is fatal
\* at startup: no operation is generated and no request is sent.  In a
\* directory such a file is skipped with one warning and the walk goes on:
\* the walk ends the run only on a walk error or when no record was loaded
\* from any file, and otherwise the records of the readable files are all
\* loaded, each from the first file that holds its key.
C9_BadRecordSource ==
    /\ BadSingleFile => AbortedAtStartup
    /\ (varsPath.exists /\ varsPath.isDir) =>
          /\ walkIdx >= 1 =>
                Cardinality(ParseWarnings) =
                   Cardinality({j \in 1..walkIdx - 1 : BadWalked(j)})
          /\ exit.state = "fatal" =>
                \/ /\ exit.why = "Failed to load vars: failed to walk directory"
                   /\ walkIdx <= Len(varsPath.files)
                   /\ varsPath.files[walkIdx].kind = "walkerr"
                \/ /\ exit.why = "Failed to load vars: no nodes found"
                   /\ walkIdx > Len(varsPath.files)
                   /\ SourceKeys = {}
                \/ /\ exit.why \notin { "Failed to load vars: failed to walk directory",
                                        "Failed to load vars: no nodes found" }
                   /\ walkIdx > Len(varsPath.files)
                   /\ SourceKeys # {}
          /\ pc \in {"load_mapping", "generate"} \cup ExecPcs =>
                /\ DOMAIN allVars = SourceKeys
                /\ \A key \in SourceKeys :
                      allVars[key] = varsPath.files[FirstHolder(key)].vars[key]

C9_Witness ==
    /\ BadDirectoryFile
    /\ Cardinality(ParseWarnings) = 1
    /\ exit.state = "ok"
    /\ Len(submitted) = 1
    /\ Len(allOperations) >= 1

----------------------------------------------------------------------------
(* Properties of the rule engine *)

\* the condition of the rule passes, or the rule has none
CondPasses(rule, ctx) ==
    \/ ~NonEmptyPattern(rule.Condition)
    \/ /\ ~evaluateTemplate(rule.Condition, ctx).err
       /\ evaluateTemplate(rule.Condition, ctx).text \notin {"", "false", "<no value>"}

\* the contexts of the units of a rule: the record's own context for a rule
\* without foreach, one per item of the resolved sequence for a rule with
\* foreach (none when no sequence is resolved)
UnitCtxs(rule, ctx) ==
    IF NonEmptyPattern(rule.Foreach)
    THEN [u \in 1..Len(evaluateForeach(rule.Foreach, ctx).items) |->
             Context(ctx.Key, ctx.Value, ctx.Datacenter,
                     evaluateForeach(rule.Foreach, ctx).items[u])]
    ELSE <<ctx>>

\* template processing or envelope wrapping fails for the unit
UnitFails(rule, unitCtx) ==
    \/ processTemplate(VMap(rule.Template), unitCtx).err
    \/ processTemplate(VMap(rule.Template), unitCtx).v.k # "map"
    \/ wrapOperation(rule.Type, IF rule.Verb = "" THEN "set" ELSE rule.Verb,
                     processTemplate(VMap(rule.Template), unitCtx).v.m).err

\* the units of the rules whose condition passes: <<rule index, unit index>>
Units ==
    UNION { { <<r, u>> : u \in 1..Len(UnitCtxs(genRules[r], genCtx)) } :
              r \in {x \in 1..Len(genRules) : CondPasses(genRules[x], genCtx)} }

FailedUnits ==
    { ru \in Units : UnitFails(genRules[ru[1]], UnitCtxs(genRules[ru[1]], genCtx)[ru[2]]) }

\* C10: the number of operations GenerateOperations returns is the number of
\* units of the rules whose condition passes (one for a rule without foreach,
\* one per item of the resolved sequence for a rule with foreach) minus the
\* number of those units whose template processing or envelope wrapping
\* failed.
C10_OperationCount ==
    genOut.called =>
        Len(genOut.ops) = Cardinality(Units) - Cardinality(FailedUnits)

C10_Witness ==
    /\ genOut.called
    /\ genCtx.Key = "edge"
    /\ genRules = <<Rules.ServiceEach, Rules.ServiceIf>>
    /\ Cardinality(Units) = 3
    /\ Cardinality(FailedUnits) = 1
    /\ Len(genOut.ops) = 2

\* the condition of the rule renders as "", "false" or the no-value marker
CondSkips(rule, ctx) ==
    /\ NonEmptyPattern(rule.Condition)
    /\ rule.Condition.ok
    /\ ~executeTokens(rule.Condition.toks, ctx).err
    /\ executeTokens(rule.Condition.toks, ctx).text \in {"", "false", "<no value>"}

\* the rules of the call whose condition does not skip them, in order
RulesNotSkipped == SelectSeq(genRules, LAMBDA rule : ~CondSkips(rule, genCtx))

\* C11: a rule whose condition renders as the empty string, "false" or the
\* no-value marker yields no operation and no warning, with or without a
\* foreach, and the call returns and logs exactly what it returns and logs
\* for the rule list without such rules.
C11_SkippedRuleYieldsNothing ==
    genOut.called =>
        /\ \A j \in 1..Len(genRules) :
              CondSkips(genRules[j], genCtx) =>
                 GenerateOperations(genCtx, <<genRules[j]>>) = NoOps
        /\ genOut.ops = GenerateOperations(genCtx, RulesNotSkipped).ops
        /\ genOut.warns = GenerateOperations(genCtx, RulesNotSkipped).warns

C11_Witness ==
    /\ genOut.called
    /\ genCtx.Key = "edge"
    /\ genRules = <<Rules.ServiceEachIf, Rules.Node>>
    /\ CondSkips(Rules.ServiceEachIf, genCtx)
    /\ RulesNotSkipped = <<Rules.Node>>
    /\ Len(genOut.ops) = 1

----------------------------------------------------------------------------
(* Order of the operations *)

\* the operations of the units of a rule that succeed, in the order of the units
UnitOps(rule, unitCtxs) ==
    [u \in 1..Len(SelectSeq(unitCtxs, LAMBDA c : ~UnitFails(rule, c))) |->
        generateSingleOperation(rule,
            SelectSeq(unitCtxs, LAMBDA c : ~UnitFails(rule, c))[u]).op]

\* the operations of the rules in document order, each rule's in item order
RECURSIVE OpsInRuleOrder(_, _)
OpsInRuleOrder(ctx, rules) ==
    IF rules = <<>> THEN <<>>
    ELSE (IF CondPasses(Head(rules), ctx)
          THEN UnitOps(Head(rules), UnitCtxs(Head(rules), ctx))
          ELSE <<>>)
         \o OpsInRuleOrder(ctx, Tail(rules))

\* the operations of one record of the run
RecordOps(key) ==
    IF allVars[key].k # "map" THEN <<>>
    ELSE OpsInRuleOrder(Context(key, allVars[key].m, "dc1", VNil), mappingConfig)

\* the records generateAllOperations has visited
Visited == IF mappingConfig = <<>> THEN {} ELSE DOMAIN allVars \ pending

\* the orders in which they may have been visited
VisitOrders ==
    { q \in [1..Cardinality(Visited) -> Visited] :
         \A a, b \in 1..Cardinality(Visited) : a # b => q[a] # q[b] }

RECURSIVE OpsInVisitOrder(_)
OpsInVisitOrder(q) ==
    IF q = <<>> THEN <<>> ELSE RecordOps(Head(q)) \o OpsInVisitOrder(Tail(q))

\* C12: the accumulated list is, for some order of the records visited so
\* far, the operations of the first record, then those of the second, and so
\* on, the operations of each record being those of its rules in document
\* order and those of a foreach rule in the order of the items.
C12_OrderPreserved ==
    \E q \in VisitOrders : allOperations = OpsInVisitOrder(q)

C12_Witness ==
    /\ pc = "generate"
    /\ pending = {}
    /\ Cardinality(Visited) = 3
    /\ mappingConfig = <<Rules.ServiceEach, Rules.CheckDefault, Rules.Node>>
    /\ Len(RecordOps("web-01")) = 4
    /\ Len(allOperations) = 8

----------------------------------------------------------------------------
(* Functions called on their own, with any argument of the model *)

\* the contexts of the calls: each record without an item, and one with an item
CallContexts ==
    { Context(key, Records[key], "dc1", VNil) : key \in DOMAIN Records }
    \cup { Context("web-01", Records["web-01"], "dc1", Svc("api", 8080)) }

\* leaves of a template: strings (patterns), a null, a number
TemplateLeaves ==
    { TPat(KeyPat), TPat(FieldPat("field3")), TPat(ItemPat("port")), VNil, VNum(80) }

TemplateSeqs == UNION { [1..n -> TemplateLeaves] : n \in 0..MaxSeqLen }

TemplateMaps ==
    { [key \in keys |-> IF key = "Name" THEN pair[1] ELSE pair[2]] :
         keys \in SUBSET {"Name", "Port"}, pair \in TemplateLeaves \X TemplateLeaves }

\* the templates handed to processTemplate
TemplateTrees ==
    { VMap([Tags |-> VSeq(q), Meta |-> VMap(m)]) : q \in TemplateSeqs, m \in TemplateMaps }
    \cup { VSeq(<<VMap(m), leaf>>) : m \in TemplateMaps, leaf \in TemplateLeaves }

\* the template strings handed to evaluateTemplate and evaluateForeach
CallPatterns ==
    { KeyPat, BadPat,
      FieldPat("field1"), FieldPat("field3"), FieldPat("missing"),
      FieldPat("services"), FieldPat("nested"), FieldPat("nothing"),
      Pat(<<Ref(<<"Value", "missing", "sub">>)>>),
      Pat(<<Ref(<<"Value", "nested", "list">>)>>),
      Pat(<<Ref(<<"Value", "field1", "sub">>)>>),
      Pat(<<Ref(<<"Item">>)>>), ItemPat("name"),
      Pat(<<ToJSON(<<"Value", "services">>)>>),
      Pat(<<Default(VStr("none"), <<"Value", "field3">>)>>),
      Pat(<<Lit("node-"), Ref(<<"Key">>)>>),
      Pat(<<Lit("1.5")>>), Pat(<<Lit("1e3")>>), Pat(<<Lit("null")>>) }

\* the maps generateSingleOperation hands to wrapOperation: what
\* processTemplate returns for templates with or without Node, Service and
\* Check entries of several kinds
ProcessedMaps ==
    { processTemplate(VMap(t), c).v.m :
         t \in { [key \in keys |->
                    CASE key = "Node" -> node
                      [] OTHER -> part] :
                  keys \in SUBSET {"Node", "Service", "Check"},
                  node \in { TPat(KeyPat), TPat(FieldPat("field3")), VNum(80) },
                  part \in { VMap([ID |-> TPat(FieldPat("field1"))]), VMap(EmptyMap),
                             TPat(KeyPat), VNil } },
         c \in CallContexts }

Calls ==
    { [fn |-> "processTemplate", data |-> t, ctx |-> c] :
         t \in TemplateTrees \cup { TPat(p) : p \in CallPatterns }, c \in CallContexts }
    \cup { [fn |-> "evaluateTemplate", templateStr |-> p, ctx |-> c] :
             p \in CallPatterns, c \in CallContexts }
    \cup { [fn |-> "evaluateForeach", expr |-> p, ctx |-> c] :
             p \in CallPatterns, c \in CallContexts }
    \cup UNION { { [fn |-> fn, operations |-> SyntheticOps(n, badAt)] :
                       fn \in {"outputPayload", "printDryRun"}, badAt \in BadPositions(n) } :
                   n \in 0..MaxOps }
    \cup { [fn |-> "wrapOperation", opType |-> type, verb |-> verb, data |-> data] :
             type \in {"Node", "Service", "Check", "Gateway"},
             verb \in {"set", "delete"}, data \in ProcessedMaps }

InitCalls ==
    /\ pc = "call"
    /\ call \in Calls
    /\ ret = NoRet
    /\ genCtx = Context("", EmptyMap, "", VNil)
    /\ genRules = <<>>
    /\ genOut = NoGen
    /\ consulAddr = [valid |-> TRUE]
    /\ operations = <<>>
    /\ i = 0
    /\ submitted = <<>>
    /\ inFlight = {}
    /\ outcomes = <<>>
    /\ execResult = [done |-> FALSE, err |-> ""]
    /\ MainIdle

\* the variables a call leaves alone
CallFrame ==
    /\ pc' = "returned"
    /\ UNCHANGED <<call, genVars, execVars, inputVars, mainVars>>

ProcessTemplateCall ==
    /\ pc = "call"
    /\ call.fn = "processTemplate"
    /\ ret' = [returned |-> TRUE] @@ processTemplate(call.data, call.ctx)
    /\ CallFrame

EvaluateTemplateCall ==
    /\ pc = "call"
    /\ call.fn = "evaluateTemplate"
    /\ ret' = [returned |-> TRUE] @@ evaluateTemplate(call.templateStr, call.ctx)
    /\ CallFrame

WrapOperationCall ==
    /\ pc = "call"
    /\ call.fn = "wrapOperation"
    /\ ret' = [returned |-> TRUE] @@ wrapOperation(call.opType, call.verb, call.data)
    /\ CallFrame

EvaluateForeachCall ==
    /\ pc = "call"
    /\ call.fn = "evaluateForeach"
    /\ ret' = [returned |-> TRUE] @@ evaluateForeach(call.expr, call.ctx)
    /\ CallFrame

OutputPayloadCall ==
    /\ pc = "call"
    /\ call.fn = "outputPayload"
    /\ ret' = [returned |-> TRUE] @@ outputPayload(call.operations)
    /\ CallFrame

PrintDryRunCall ==
    /\ pc = "call"
    /\ call.fn = "printDryRun"
    /\ ret' = [returned |-> TRUE] @@ printDryRun(call.operations)
    /\ CallFrame

NextCalls ==
    \/ WrapOperationCall
    \/ OutputPayloadCall
    \/ PrintDryRunCall
    \/ EvaluateForeachCall
    \/ ProcessTemplateCall
    \/ EvaluateTemplateCall

SpecCalls == InitCalls /\ [][NextCalls]_vars

----------------------------------------------------------------------------
(* Properties of the functions *)

\* the empty string, nil or the no-value marker
IsEmptyValue(v) == v = VNil \/ v = VStr("") \/ v = VStr("<no value>")

\* no entry and no element of v, at any depth, is an empty value
RECURSIVE NoEmptyInside(_)
NoEmptyInside(v) ==
    CASE v.k = "map" ->
            \A key \in DOMAIN v.m : ~IsEmptyValue(v.m[key]) /\ NoEmptyInside(v.m[key])
      [] v.k = "seq" ->
            \A j \in 1..Len(v.q) : ~IsEmptyValue(v.q[j]) /\ NoEmptyInside(v.q[j])
      [] OTHER -> TRUE

\* v holds, under their own keys and in their order, exactly the processed
\* entries and elements of template t that are not empty values
RECURSIVE Faithful(_, _, _)
Faithful(t, v, ctx) ==
    CASE t.k = "map" ->
            /\ v.k = "map"
            /\ DOMAIN v.m =
                  {key \in DOMAIN t.m : ~IsEmptyValue(processTemplate(t.m[key], ctx).v)}
            /\ \A key \in DOMAIN v.m :
                  /\ v.m[key] = processTemplate(t.m[key], ctx).v
                  /\ Faithful(t.m[key], v.m[key], ctx)
      [] t.k = "seq" ->
            /\ v.k = "seq"
            /\ v.q = SelectSeq([j \in 1..Len(t.q) |-> processTemplate(t.q[j], ctx).v],
                               LAMBDA e : ~IsEmptyValue(e))
      [] OTHER -> TRUE

\* C13: what processTemplate returns holds, at no depth, a mapping entry or a
\* sequence element that is the empty string, nil or the no-value marker; the
\* entries that remain are under their template keys and the elements that
\* remain are in their template order.
C13_NoEmptyEntries ==
    (call.fn = "processTemplate" /\ ret.returned /\ ~ret.err) =>
        /\ NoEmptyInside(ret.v)
        /\ Faithful(call.data, ret.v, call.ctx)

C13_Witness ==
    /\ call.fn = "processTemplate"
    /\ ret.returned
    /\ call.ctx.Key = "edge"
    /\ call.data = VMap([Tags |-> VSeq(<<TPat(FieldPat("field3")), TPat(KeyPat)>>),
                         Meta |-> VMap([Name |-> TPat(FieldPat("field3")),
                                        Port |-> VNum(80)])])
    /\ ret.v = VMap([Tags |-> VSeq(<<VStr("edge")>>), Meta |-> VMap([Port |-> VNum(80)])])

\* the template string is one reference that cannot be resolved in the
\* context: a record field that is missing, a field under a missing record
\* field, or the item or a field of the item when there is no item
UnresolvableReference(templateStr, ctx) ==
    /\ templateStr.ok
    /\ Len(templateStr.toks) = 1
    /\ templateStr.toks[1].t = "ref"
    /\ LET path == templateStr.toks[1].path IN
          \/ /\ Len(path) \in {2, 3}
             /\ path[1] = "Value"
             /\ path[2] \notin DOMAIN ctx.Value
          \/ /\ Len(path) \in {1, 2}
             /\ path[1] = "Item"
             /\ ctx.Item = VNil

\* C14 as stated: evaluateTemplate returns the empty string and no error for
\* a reference to a missing record field, to a field under a missing record
\* field, and to the item or a field of the item when there is no item.
C14_AsStated ==
    (/\ call.fn = "evaluateTemplate"
     /\ ret.returned
     /\ UnresolvableReference(call.templateStr, call.ctx)) =>
        (~ret.err /\ ret.text = "")

----------------------------------------------------------------------------
(* Isolation of failures *)

\* the rule fails as a whole for the record: its condition or its foreach
\* cannot be parsed, or it has no foreach and its one unit fails
RuleFails(rule, ctx) ==
    \/ ~rule.Condition.ok
    \/ ~rule.Foreach.ok
    \/ /\ ~NonEmptyPattern(rule.Foreach)
       /\ CondPasses(rule, ctx)
       /\ UnitFails(rule, ctx)

\* the context generateAllOperations builds for a record
RecordCtx(key) == Context(key, allVars[key].m, "dc1", VNil)

\* the operations of the records in visit order q when, for each record, the
\* rules that fail for it are left out of the mapping and the records that
\* are no mapping are left out of the record set
RECURSIVE OpsWithoutFailures(_)
OpsWithoutFailures(q) ==
    IF q = <<>> THEN <<>>
    ELSE (IF allVars[Head(q)].k # "map" THEN <<>>
          ELSE GenerateOperations(RecordCtx(Head(q)),
                  SelectSeq(mappingConfig,
                            LAMBDA rule : ~RuleFails(rule, RecordCtx(Head(q))))).ops)
         \o OpsWithoutFailures(Tail(q))

\* the operations of a foreach rule when each item is processed on its own
RECURSIVE OpsItemByItem(_, _, _)
OpsItemByItem(rule, ctx, items) ==
    IF items = <<>> THEN <<>>
    ELSE ForeachItems(rule, ctx, <<Head(items)>>, 1).ops
            \o OpsItemByItem(rule, ctx, Tail(items))

\* the failures of units logged so far
UnitWarnings ==
    {n \in 1..Len(logs) :
        logs[n].what \in {"condition", "foreach", "operation", "item", "invalid node"}}

\* C15: a unit that fails (a malformed pattern, a record that is no mapping,
\* an unknown kind, a wrap that fails, for a rule or for one foreach item)
\* takes away its own operation only: the accumulated list is what the run
\* accumulates without the failing rules and records, a foreach rule yields
\* what its items yield one by one, and generation never ends the run.
C15_FailuresIsolated ==
    /\ \E q \in VisitOrders : allOperations = OpsWithoutFailures(q)
    /\ \A key \in Visited : \A j \in 1..Len(mappingConfig) :
          (/\ allVars[key].k = "map"
           /\ NonEmptyPattern(mappingConfig[j].Foreach)
           /\ CondPasses(mappingConfig[j], RecordCtx(key))) =>
              GenerateOperations(RecordCtx(key), <<mappingConfig[j]>>).ops =
                 OpsItemByItem(mappingConfig[j], RecordCtx(key),
                               evaluateForeach(mappingConfig[j].Foreach, RecordCtx(key)).items)
    /\ pc = "generate" => exit = Running
    /\ (exit.state = "fatal" /\ mappingConfig # <<>>) =>
          (execResult.done /\ execResult.err # "")
    /\ (UnitWarnings # {} /\ pc = "exited" /\ execResult.err = "") => exit.state = "ok"

C15_Witness ==
    /\ pc = "exited"
    /\ exit.state = "ok"
    /\ mappingConfig = <<Rules.BadTemplate, Rules.UnknownType, Rules.ServiceEach, Rules.Node>>
    /\ Visited = {"junk", "web-01", "edge"}
    /\ Cardinality(UnitWarnings) = 6
    /\ Len(allOperations) = 4
    /\ Len(submitted) = 1

\* the map holds a string "Node" and a mapping under field
HasNodeAnd(data, field) ==
    /\ "Node" \in DOMAIN data
    /\ data["Node"].k = "str"
    /\ field \in DOMAIN data
    /\ data[field].k = "map"

\* C16: wrapping a Service (a Check) operation fails, and yields no
\* operation, when the processed map has no string "Node" or no mapping
\* "Service" ("Check"); with both it succeeds, and the envelope holds the
\* verb, that node name and that mapping as they are.
C16_WrapRequiresNodeAndPart ==
    (call.fn = "wrapOperation" /\ call.opType \in {"Service", "Check"} /\ ret.returned) =>
        IF HasNodeAnd(call.data, call.opType)
        THEN /\ ~ret.err
             /\ ret.op = VMap([key \in {call.opType} |->
                              VMap([part \in {"Verb", "Node", call.opType} |->
                                       CASE part = "Verb" -> VStr(call.verb)
                                         [] part = "Node" -> call.data["Node"]
                                         [] OTHER -> call.data[call.opType]])])
        ELSE ret.err /\ ret.op = VNil

C16_Witness ==
    /\ call.fn = "wrapOperation"
    /\ call.opType = "Service"
    /\ ret.returned
    /\ ret.err
    /\ call.data = [Node |-> VNum(7), Service |-> VMap(EmptyMap)]

----------------------------------------------------------------------------
(* Shape of the operations *)

\* what the call returns for rule j alone
OpsOfRule(j) == GenerateOperations(genCtx, <<genRules[j]>>).ops

RECURSIVE OpsRuleByRule(_)
OpsRuleByRule(j) ==
    IF j > Len(genRules) THEN <<>> ELSE OpsOfRule(j) \o OpsRuleByRule(j + 1)

\* the verb the rule gives, "set" when it gives none
VerbOf(rule) == IF rule.Verb = "" THEN "set" ELSE rule.Verb

\* op is an object with the one key kind, over an object whose Verb is verb
IsEnvelope(op, kind, verb) ==
    /\ op.k = "map"
    /\ DOMAIN op.m = {kind}
    /\ op.m[kind].k = "map"
    /\ "Verb" \in DOMAIN op.m[kind].m
    /\ op.m[kind].m["Verb"] = VStr(verb)

\* C17: every operation returned comes from one rule and is an object with
\* one key, the rule's kind, which is Node, Service or Check, over an object
\* whose Verb is the rule's verb, or "set" when the rule gives none; a Node
\* rule without foreach whose condition passes and whose template is
\* processed yields its processed map wrapped, whatever the map holds; a rule
\* of another kind yields nothing.
C17_EnvelopeShape ==
    genOut.called =>
        /\ genOut.ops = OpsRuleByRule(1)
        /\ \A j \in 1..Len(genRules) :
              /\ \A n \in 1..Len(OpsOfRule(j)) :
                    /\ genRules[j].Type \in {"Node", "Service", "Check"}
                    /\ IsEnvelope(OpsOfRule(j)[n], genRules[j].Type, VerbOf(genRules[j]))
              /\ genRules[j].Type \notin {"Node", "Service", "Check"} => OpsOfRule(j) = <<>>
              /\ (/\ genRules[j].Type = "Node"
                  /\ ~NonEmptyPattern(genRules[j].Foreach)
                  /\ CondPasses(genRules[j], genCtx)
                  /\ ~processTemplate(VMap(genRules[j].Template), genCtx).err) =>
                    OpsOfRule(j) =
                       <<VMap([Node |-> VMap([Verb |-> VStr(VerbOf(genRules[j])),
                                              Node |-> processTemplate(
                                                  VMap(genRules[j].Template), genCtx).v])])>>

C17_Witness ==
    /\ genOut.called
    /\ genCtx.Key = ToString(7)
    /\ genRules = <<Rules.UnknownType, Rules.Node>>
    /\ genOut.ops = <<VMap([Node |-> VMap([Verb |-> VStr("set"),
                                           Node |-> VMap([Node |-> VNum(7),
                                                          Meta |-> VMap(EmptyMap)])])])>>

----------------------------------------------------------------------------
(* Resolution of a foreach pattern *)

\* evaluateForeach has returned for a pattern that is one reference below
\* .Value
ForeachOfValuePath ==
    /\ pc = "returned"
    /\ call.fn = "evaluateForeach"
    /\ call.expr.ok
    /\ Len(call.expr.toks) = 1
    /\ call.expr.toks[1].t = "ref"
    /\ Len(call.expr.toks[1].path) >= 2
    /\ call.expr.toks[1].path[1] = "Value"

ForeachPath == call.expr.toks[1].path

\* the record field a one-segment path names, nil when it is missing
ForeachField == getNestedField(call.ctx.Value, ForeachPath[2])

IsJSONArrayText(text) == \E a \in JsonArrays : ToJSONText(a) = text

\* the pattern resolves to no sequence: a path of several segments, a missing
\* field, or a value that is no sequence and whose text is no JSON array
ResolvesToNoSequence ==
    \/ Len(ForeachPath) >= 3
    \/ ForeachPath[2] \notin DOMAIN call.ctx.Value
    \/ /\ ForeachField.k # "seq"
       /\ ~IsJSONArrayText(GoFormat(ForeachField))

\* zero items and no error
YieldsNothing == ~ret.err /\ ret.items = <<>>

\* C18, as stated: a foreach pattern that resolves to no sequence (missing
\* field, non-sequence value whose text is no JSON array, or a path of several
\* segments) or to an empty sequence yields zero items and no error; a bare
\* reference to a record field holding a sequence yields exactly the elements
\* of that field, in order.
C18_AsStated ==
    ForeachOfValuePath =>
        /\ ResolvesToNoSequence => YieldsNothing
        /\ (Len(ForeachPath) = 2 /\ ForeachField.k = "seq") =>
              /\ ~ret.err
              /\ ret.items = ForeachField.q

\* what the call does for a path of several segments: the items are those of
\* the JSON array the rendered text denotes, when it denotes one
C18_SingleSegment ==
    ForeachOfValuePath =>
        /\ (ResolvesToNoSequence /\ Len(ForeachPath) = 2) => YieldsNothing
        /\ (Len(ForeachPath) = 2 /\ ForeachField.k = "seq") =>
              /\ ~ret.err
              /\ ret.items = ForeachField.q
        /\ Len(ForeachPath) >= 3 =>
              /\ ~ret.err
              /\ ret.items = ParseJSONArray(executeTokens(call.expr.toks, call.ctx).text)

\* a path of two segments below .Value whose rendered text is a JSON array
C18_MultiSegmentItems ==
    /\ ForeachOfValuePath
    /\ ForeachPath = <<"Value", "nested", "list">>
    /\ call.ctx.Key = "edge"
    /\ ret.items = <<VNum(5)>>

----------------------------------------------------------------------------
(* Merging of the record sources *)

\* the record files of the directory that the walk has merged so far
MergedFiles == {j \in RecordFiles : j < walkIdx}

\* the keys file j holds that no earlier merged file holds
NewKeys(j) ==
    DOMAIN varsPath.files[j].vars
       \ UNION { DOMAIN varsPath.files[h].vars : h \in {x \in MergedFiles : x < j} }

\* the numbers mergeVars returned, as logged, in the order of the calls
LoadedLogs == SelectSeq(logs, LAMBDA l : l.what = "loaded")

\* the merged files in the order of the walk
RECURSIVE InOrder(_)
InOrder(S) ==
    IF S = {} THEN <<>>
    ELSE LET j == CHOOSE x \in S : \A y \in S : x <= y
         IN <<j>> \o InOrder(S \ {j})

\* C19: while and after a directory is walked, the accumulated record set
\* holds exactly the keys of the files merged so far, each with the value of
\* the first file in which it occurs, and every mergeVars call returned the
\* number of keys it newly added.
C19_FirstWins ==
    (varsPath.exists /\ varsPath.isDir /\ walkIdx >= 1) =>
        /\ DOMAIN allVars = UNION { DOMAIN varsPath.files[j].vars : j \in MergedFiles }
        /\ \A key \in DOMAIN allVars :
              allVars[key] = varsPath.files[FirstHolder(key)].vars[key]
        /\ Len(LoadedLogs) = Cardinality(MergedFiles)
        /\ \A n \in 1..Len(LoadedLogs) :
              /\ LoadedLogs[n].key = varsPath.files[InOrder(MergedFiles)[n]].name
              /\ LoadedLogs[n].count = Cardinality(NewKeys(InOrder(MergedFiles)[n]))

\* two files that share a key were merged: the second call added one key
C19_Witness ==
    /\ varsPath.exists /\ varsPath.isDir
    /\ varsPath.files = <<RootDir, Files.a, Files.b>>
    /\ walkIdx = 4
    /\ allVars["web-01"] = VMap(Records["web-01"])
    /\ LoadedLogs = <<Loaded("a.yaml", 2), Loaded("b.yml", 1)>>

----------------------------------------------------------------------------
(* Coercion of a scalar leaf *)

\* processTemplate has returned, without error, for a template that is one
\* string
LeafProcessed ==
    /\ pc = "returned"
    /\ call.fn = "processTemplate"
    /\ call.data.k = "pat"
    /\ ~ret.err

\* the text the leaf evaluates to
LeafText == evaluateTemplate(call.data.p, call.ctx).text

\* the texts of the model that are numbers, with the value num/den each
\* denotes
NumberTexts == { ToString(n) : n \in Numbers } \cup {"1.5", "1e3"}

\* C20, as stated: a leaf whose text is a number is returned as the number
\* of the same value, and a leaf whose text is no number is returned as the
\* unchanged string.
C20_AsStated ==
    LeafProcessed =>
        IF LeafText \in NumberTexts
        THEN /\ ret.v.k = "num"
             /\ ret.v.n * ParseJSONNumber(LeafText).den = ParseJSONNumber(LeafText).num
        ELSE ret.v = VStr(LeafText)

\* what the call returns: the integer part of the number, 0 for the text
\* null, and the unchanged string for any other text
C20_IntegerPart ==
    LeafProcessed =>
        IF LeafText \in NumberTexts
        THEN ret.v = VNum(IntOf(ParseJSONNumber(LeafText).num, ParseJSONNumber(LeafText).den))
        ELSE IF LeafText = "null" THEN ret.v = VNum(0)
        ELSE ret.v = VStr(LeafText)

\* the text 1.5 came back as the number 1
C20_Truncated ==
    /\ LeafProcessed
    /\ LeafText = "1.5"
    /\ ret.v = VNum(1)

----------------------------------------------------------------------------
(* Contexts of the evaluations *)

\* ctx with the item and nothing else replaced
ItemContext(ctx, item) == [ctx EXCEPT !.Item = item]

\* the operations among the results of generateSingleOperation, in order
RECURSIVE OpsAmong(_)
OpsAmong(results) ==
    IF results = <<>> THEN <<>>
    ELSE (IF Head(results).err THEN <<>> ELSE <<Head(results).op>>)
         \o OpsAmong(Tail(results))

\* the items rule j iterates in the base context
ItemsOfRule(j) == evaluateForeach(genRules[j].Foreach, genCtx).items

\* C21: the base context has no item before and after the call; whatever the
\* rules before it, a rule with foreach whose condition passes yields the
\* operations of its template evaluated once per element, each time in the
\* base context with that element alone as its item, and a rule without
\* foreach whose condition passes yields that of its template evaluated in
\* the base context, the item absent.
C21_FreshContexts ==
    genOut.called =>
        /\ genCtx.Item = VNil
        /\ genOut.ops = OpsRuleByRule(1)
        /\ \A j \in 1..Len(genRules) :
              CondPasses(genRules[j], genCtx) =>
                 IF NonEmptyPattern(genRules[j].Foreach)
                 THEN OpsOfRule(j) =
                         OpsAmong([n \in 1..Len(ItemsOfRule(j)) |->
                                      generateSingleOperation(genRules[j],
                                          ItemContext(genCtx, ItemsOfRule(j)[n]))])
                 ELSE OpsOfRule(j) =
                         OpsAmong(<<generateSingleOperation(genRules[j],
                                        ItemContext(genCtx, VNil))>>)

\* a foreach over two items, then a rule without foreach that refers to the
\* item: one operation per item, each with its own item, and none for the
\* second rule
C21_Witness ==
    /\ genOut.called
    /\ genCtx.Key = "web-01"
    /\ genRules = <<Rules.ServiceEach, Rules.CheckItem>>
    /\ Len(genOut.ops) = 2
    /\ genOut.ops[1].m["Service"].m["Service"].m["ID"] = VStr("api")
    /\ genOut.ops[2].m["Service"].m["Service"].m["ID"] = VStr("db")
    /\ genOut.warns = <<Warn("operation", "web-01")>>

----------------------------------------------------------------------------
(* Output modes against the batch executor *)

\* the batches ExecuteOperations cuts the list into, in order
ExecutorBatches(ops) ==
    [k \in 1..totalBatches(ops) |->
        BatchAt(ops, (k - 1) * maxOperationsPerTransaction)]

\* the object payload mode prints for batch k of the executor
PayloadObject(ops, k) ==
    [batch |-> BatchNum((k - 1) * maxOperationsPerTransaction),
     size |-> Len(ExecutorBatches(ops)[k]),
     operations |-> ExecutorBatches(ops)[k]]

\* C22, as stated: for every operation list, payload mode prints one object
\* per batch of the executor, numbered 1..ceil(N/64) in order, with the
\* operations and the size of that batch, and the dry run reports the number
\* of batches the executor sends in a run without failure.
C22_AsStated ==
    /\ (pc = "returned" /\ call.fn = "outputPayload") =>
          /\ Len(ret.lines) = CeilDiv(Len(call.operations), 64)
          /\ \A k \in 1..Len(ret.lines) :
                /\ ret.lines[k].batch = k
                /\ ret.lines[k] = PayloadObject(call.operations, k)
    /\ (pc = "returned" /\ call.fn = "printDryRun") =>
          ret.batches = Len(ExecutorBatches(call.operations))

\* the batches of the executor that json.Marshal accepts, in order
RECURSIVE MarshalableBatches(_, _)
MarshalableBatches(ops, k) ==
    IF k > totalBatches(ops) THEN <<>>
    ELSE (IF MarshalOk(ExecutorBatches(ops)[k]) THEN <<k>> ELSE <<>>)
         \o MarshalableBatches(ops, k + 1)

\* what the calls do: payload mode prints the objects of the batches that
\* json.Marshal accepts and leaves out the others; the dry run counts every
\* batch
C22_MarshalableOnly ==
    /\ (pc = "returned" /\ call.fn = "outputPayload") =>
          /\ Len(ret.lines) = Len(MarshalableBatches(call.operations, 1))
          /\ \A n \in 1..Len(ret.lines) :
                ret.lines[n] =
                   PayloadObject(call.operations, MarshalableBatches(call.operations, 1)[n])
    /\ (pc = "returned" /\ call.fn = "printDryRun") =>
          ret.batches = CeilDiv(Len(call.operations), 64)

\* 129 operations, one in the second batch that json.Marshal rejects: payload
\* mode printed batches 1 and 3
C22_BatchLeftOut ==
    /\ pc = "returned"
    /\ call.fn = "outputPayload"
    /\ call.operations = SyntheticOps(129, 65)
    /\ Len(ret.lines) = 2
    /\ ret.lines[1].batch = 1
    /\ ret.lines[2].batch = 3
    /\ ret.lines[2].size = 1

----------------------------------------------------------------------------
(* Evaluation of the condition *)

\* what the call returns and logs for rule j alone
OutcomeOfRule(j) == GenerateOperations(genCtx, <<genRules[j]>>)

\* what it returns and logs for rule j without its condition
OutcomeUnconditioned(j) ==
    GenerateOperations(genCtx, <<[genRules[j] EXCEPT !.Condition = NoPat]>>)

\* the condition of rule j evaluated in the base context, the item absent
ConditionOfRule(j) == evaluateTemplate(genRules[j].Condition, ItemContext(genCtx, VNil))

RECURSIVE WarnsRuleByRule(_)
WarnsRuleByRule(j) ==
    IF j > Len(genRules) THEN <<>> ELSE OutcomeOfRule(j).warns \o WarnsRuleByRule(j + 1)

\* C23: the condition of a rule is evaluated once, in the base context with
\* no item, before the foreach is resolved.  When it fails to evaluate the
\* rule yields nothing and one warning; when its text is empty or false the
\* rule yields nothing and no warning, whatever its foreach; otherwise the
\* rule yields and logs what it would without a condition, for all items of
\* its foreach.
C23_ConditionOncePerRule ==
    genOut.called =>
        /\ genOut.ops = OpsRuleByRule(1)
        /\ genOut.warns = WarnsRuleByRule(1)
        /\ \A j \in 1..Len(genRules) :
              NonEmptyPattern(genRules[j].Condition) =>
                 IF ConditionOfRule(j).err
                 THEN OutcomeOfRule(j) =
                         [ops |-> <<>>, warns |-> <<Warn("condition", genCtx.Key)>>]
                 ELSE IF ConditionOfRule(j).text \in {"", "false", "<no value>"}
                 THEN OutcomeOfRule(j) = NoOps
                 ELSE OutcomeOfRule(j) = OutcomeUnconditioned(j)

\* a condition that refers to the item fails once, before the two items are
\* looked at; a condition on a record field admits both items
C23_Witness ==
    /\ genOut.called
    /\ genCtx.Key = "web-01"
    /\ genRules = <<Rules.ServiceEachIfItem, Rules.ServiceEachIf>>
    /\ Len(OutcomeUnconditioned(1).ops) = 2
    /\ Len(genOut.ops) = 2
    /\ genOut.warns = <<Warn("condition", "web-01")>>

----------------------------------------------------------------------------
(* Node names taken from the record key *)

\* a Service or Check rule whose template takes Node from the record key and
\* holds a mapping under the rule's kind
NodeFromKey(rule) ==
    /\ rule.Type \in {"Service", "Check"}
    /\ "Node" \in DOMAIN rule.Template
    /\ rule.Template["Node"] = TPat(KeyPat)
    /\ rule.Type \in DOMAIN rule.Template
    /\ rule.Template[rule.Type].k = "map"

\* the contexts of the units of rule j whose template is processed without
\* error
ProcessedUnits(j) ==
    SelectSeq(UnitCtxs(genRules[j], genCtx),
              LAMBDA c : ~processTemplate(VMap(genRules[j].Template), c).err)

\* every unit of rule j whose template is processed yields an operation, and
\* every operation names the record key, as a string, as its node
OneOpPerUnitOnKey(j) ==
    /\ Len(OpsOfRule(j)) = Len(ProcessedUnits(j))
    /\ \A n \in 1..Len(OpsOfRule(j)) :
          OpsOfRule(j)[n].m[genRules[j].Type].m["Node"] = VStr(genCtx.Key)

\* C24, as stated: a Service or Check rule that takes Node from the record
\* key and holds its Service or Check mapping, and whose condition passes,
\* yields an operation for every unit whose template is processed, for every
\* record with a non-empty key, a key whose text is a number included; the
\* node of the envelope is the record key as a string.
C24_AsStated ==
    genOut.called =>
        \A j \in 1..Len(genRules) :
           (/\ NodeFromKey(genRules[j])
            /\ CondPasses(genRules[j], genCtx)
            /\ genCtx.Key # "") => OneOpPerUnitOnKey(j)

\* what the call does: the same for a key whose text is no number; for a key
\* whose text is a number the node is coerced to that number, the envelope is
\* refused and the rule yields no operation
C24_TextKeysOnly ==
    genOut.called =>
        \A j \in 1..Len(genRules) :
           (/\ NodeFromKey(genRules[j])
            /\ CondPasses(genRules[j], genCtx)
            /\ genCtx.Key # "") =>
               IF ParseJSONNumber(genCtx.Key).ok
               THEN OpsOfRule(j) = <<>>
               ELSE OneOpPerUnitOnKey(j)

\* the record whose key is the text 7: the Service rule is refused
C24_NumericKeyRefused ==
    /\ genOut.called
    /\ genCtx.Key = ToString(7)
    /\ genRules = <<Rules.ServiceIf>>
    /\ CondPasses(Rules.ServiceIf, genCtx)
    /\ Len(ProcessedUnits(1)) = 1
    /\ genOut.ops = <<>>
    /\ genOut.warns = <<Warn("operation", ToString(7))>>

----------------------------------------------------------------------------
(* Pruning and the containers of a template *)

IsContainer(v) == v.k \in {"map", "seq"}

\* every mapping and sequence inside template t has its place in v: a nested
\* mapping under its key, a nested mapping or sequence of a sequence in its
\* order, however few entries it keeps
RECURSIVE KeepsContainers(_, _)
KeepsContainers(t, v) ==
    CASE t.k = "map" ->
            /\ v.k = "map"
            /\ \A key \in DOMAIN t.m :
                  IsContainer(t.m[key]) =>
                     /\ key \in DOMAIN v.m
                     /\ KeepsContainers(t.m[key], v.m[key])
      [] t.k = "seq" ->
            /\ v.k = "seq"
            /\ Len(SelectSeq(v.q, IsContainer)) = Len(SelectSeq(t.q, IsContainer))
            /\ \A n \in 1..Len(SelectSeq(t.q, IsContainer)) :
                  KeepsContainers(SelectSeq(t.q, IsContainer)[n],
                                  SelectSeq(v.q, IsContainer)[n])
      [] OTHER -> TRUE

\* the template of rule j as processed in the base context
ProcessedOfRule(j) == processTemplate(VMap(genRules[j].Template), genCtx)

\* C25: a mapping or sequence of the template whose entries are all pruned
\* stays in its parent, empty; so a Service or Check rule without foreach
\* whose condition passes, whose template is processed, whose Node resolves
\* to a non-empty string and whose template holds a mapping under the rule's
\* kind yields one operation, which carries the processed mapping, empty
\* when all its fields are missing.
C25_PruningStaysLocal ==
    genOut.called =>
        \A j \in 1..Len(genRules) :
           (/\ genRules[j].Type \in {"Service", "Check"}
            /\ ~NonEmptyPattern(genRules[j].Foreach)
            /\ CondPasses(genRules[j], genCtx)
            /\ ~ProcessedOfRule(j).err
            /\ genRules[j].Type \in DOMAIN genRules[j].Template
            /\ genRules[j].Template[genRules[j].Type].k = "map"
            /\ "Node" \in DOMAIN ProcessedOfRule(j).v.m
            /\ ProcessedOfRule(j).v.m["Node"].k = "str") =>
               /\ KeepsContainers(VMap(genRules[j].Template), ProcessedOfRule(j).v)
               /\ Len(OpsOfRule(j)) = 1
               /\ OpsOfRule(j)[1].m[genRules[j].Type].m[genRules[j].Type] =
                     ProcessedOfRule(j).v.m[genRules[j].Type]

\* a record without the fields of the two rules: an empty Service mapping,
\* and a Check mapping that keeps an empty mapping and a sequence of one
\* empty mapping
C25_Witness ==
    /\ genOut.called
    /\ genCtx.Key = "db-02"
    /\ genRules = <<Rules.ServiceSparse, Rules.CheckSparse>>
    /\ genOut.ops =
          <<VMap([Service |-> VMap([Verb |-> VStr("set"), Node |-> VStr("db-02"),
                                    Service |-> VMap(EmptyMap)])]),
            VMap([Check |-> VMap([Verb |-> VStr("set"), Node |-> VStr("node-db-02"),
                                  Check |-> VMap([Meta |-> VMap(EmptyMap),
                                                  Tags |-> VSeq(<<VMap(EmptyMap)>>)])])])>>

====
